---------------------------- MODULE Spec2Model ----------------------------
(***************************************************************************)
(* A model of the scene-graph evaluation scripts: sg_adapter_eval.py       *)
(* (SGAdapterEvaluator) and run_evaluation.py (main).                      *)
(*                                                                         *)
(* Python values are modelled as records of one shape,                     *)
(*     [t |-> type tag, s |-> characters, n |-> integer, l |-> items],     *)
(* so that lists, tuples, strings, numbers, None and dicts can be mixed in  *)
(* one collection the way json.loads mixes them.  A str is the sequence of *)
(* its characters; a dict is the sequence key1, value1, key2, value2, ...  *)
(* A float is an exact fraction in lowest terms.                           *)
(***************************************************************************)
EXTENDS Integers, Sequences, FiniteSets, TLC

VARIABLES
    iou_pc,        \* compute_iou harness: "call" before the call, "done" after
    iou_list1,     \* compute_iou: first argument (a sequence of Python values)
    iou_list2,     \* compute_iou: second argument
    iou_out,       \* compute_iou: what the call returned or raised
    ld_pc,         \* load_metadata: "idle", "reading", "returned" or "raised"
    ld_lines,      \* load_metadata: the lines of the metadata file
    ld_i,          \* load_metadata: the line the 'for line in f' loop is at
    ld_exc,        \* load_metadata: the exception that escaped it, or ""
    metadata_list, \* load_metadata: the records loaded so far, in order
    object_list,   \* self.object_list
    predicate_list,\* self.predicate_list
    ev_pc,         \* evaluate_method: "idle", "load", "loop", "scoring",
                   \*   "returned" or "raised"
    ev_dir,        \* evaluate_method: the file names in images_dir
    ev_output_file,\* evaluate_method: output_file, "" for None
    image_files,   \* evaluate_method: the sorted image files
    ev_i,          \* evaluate_method: the image the for loop is at
    results,       \* evaluate_method: the per-image records
    total_metrics, \* evaluate_method: the running sums of the three metrics
    evaluated,     \* evaluate_method: images scored
    skipped,       \* evaluate_method: images without metadata
    ev_response,   \* the oracle's response to the call in progress
    ev_exc,        \* the exception that escaped evaluate_method, or ""
    ev_output,     \* what evaluate_method returned: <<output>>, or <<>>
    oracle_calls,  \* every oracle call made: image, time, vocabulary sent
    clock,         \* time slept so far, in seconds
    fs,            \* the files and directories written so far
    main_pc,       \* main: "idle", "start", "scan_metadata", "scan_repo",
                   \*   "makedirs", "compare", "methods", "evaluating",
                   \*   "tables", "done", "exit" or "raised"
    main_key,      \* main: GEMINI_API_KEY is given or in the environment
    main_meta,     \* main: <<lines>> of the metadata file, <<>> if absent
    main_repo,     \* main: the method directories that exist under repo_dir
    main_scenes,   \* main: what scan_metadata_file returned
    methods_found, \* main: what scan_repo_structure returned
    cm_i,          \* compare_methods: the method the for loop is at
    comparison,    \* compare_methods: method name and average metrics
    main_summary,  \* main: the summary written, <<summary>> or <<>>
    main_exc,      \* main: the exception that escaped it, or ""
    fl_pc,         \* filter_best_per_scene: "idle", "filtered", "refiltered"
                   \*   or "raised"
    fl_metric,     \* filter_best_per_scene: the metric argument
    fl_out,        \* what filter_best_per_scene returned: <<filtered_data>>
    fl_again,      \* what it returned when given its own output
    fl_exc,        \* the exception that escaped filter_best_per_scene, or ""
    sm_pc,         \* create_scene_mapping: "idle", "load", "walk", "map",
                   \*   "returned" or "raised"
    sm_auto,       \* TRUE for auto_create_scene_mapping
    sm_lines,      \* the lines of metadata_file
    sm_tree,       \* images_dir: its scene directories with their files
    sm_metadata,   \* the metadata dict: [key, value] in insertion order
    scene_dirs,    \* the sorted scene directories
    sm_i,          \* the scene directory the for loop is at
    mapping,       \* the mapping: [key, value] in insertion order
    sm_exc         \* the exception that escaped, or ""

iou_vars == <<iou_pc, iou_list1, iou_list2, iou_out>>

ld_vars == <<ld_pc, ld_lines, ld_i, ld_exc, metadata_list, object_list,
             predicate_list>>

ev_vars == <<ev_pc, ev_dir, ev_output_file, image_files, ev_i, results,
             total_metrics, evaluated, skipped, ev_response, ev_exc, ev_output,
             oracle_calls, clock, fs>>

mn_vars == <<main_pc, main_key, main_meta, main_repo, main_scenes,
             methods_found, cm_i, comparison, main_summary, main_exc>>

fl_vars == <<fl_pc, fl_metric, fl_out, fl_again, fl_exc>>

sm_vars == <<sm_pc, sm_auto, sm_lines, sm_tree, sm_metadata, scene_dirs, sm_i,
             mapping, sm_exc>>

vars == <<iou_vars, ld_vars, ev_vars, mn_vars, fl_vars, sm_vars>>

-----------------------------------------------------------------------------
(* Bounds of the model. *)

MaxLen == 3         \* longest argument list handed to compute_iou

MaxLines == 3       \* most lines of a metadata file

MaxImages == 3      \* most files in an images directory

-----------------------------------------------------------------------------
(* Python values. *)

PyStr(chars) == [t |-> "str", s |-> chars, n |-> 0, l |-> <<>>]

PyInt(i) == [t |-> "int", s |-> <<>>, n |-> i, l |-> <<>>]

PyList(items) == [t |-> "list", s |-> <<>>, n |-> 0, l |-> items]

PyTup(items) == [t |-> "tuple", s |-> <<>>, n |-> 0, l |-> items]

PyDict(kv) == [t |-> "dict", s |-> <<>>, n |-> 0, l |-> kv]

PyNone == [t |-> "none", s |-> <<>>, n |-> 0, l |-> <<>>]

(* The words of the example data. *)
cat == PyStr(<<"c", "a", "t">>)

mat == PyStr(<<"m", "a", "t">>)

dog == PyStr(<<"d", "o", "g">>)

on == PyStr(<<"o", "n">>)

under == PyStr(<<"u", "n", "d", "e", "r">>)

(* bool(v): Python truth value, as 'not list1' tests it. *)
Truthy(v) ==
    CASE v.t = "none" -> FALSE
      [] v.t = "str" -> Len(v.s) > 0
      [] v.t = "int" -> v.n # 0
      [] OTHER -> Len(v.l) > 0

(* Whether 'for item in v' works; a number or None raises TypeError. *)
Iterable(v) == v.t \in {"list", "tuple", "str", "dict"}

(* The items 'for item in v' yields: elements, characters, or dict keys. *)
Items(v) ==
    CASE v.t = "str" -> [i \in 1..Len(v.s) |-> PyStr(<<v.s[i]>>)]
      [] v.t = "dict" -> [i \in 1..(Len(v.l) \div 2) |-> v.l[2 * i - 1]]
      [] OTHER -> v.l

(* hash(v) succeeds: lists and dicts are unhashable, a tuple is hashable   *)
(* when all its elements are.                                              *)
RECURSIVE Hashable(_)
Hashable(v) ==
    CASE v.t \in {"list", "dict"} -> FALSE
      [] v.t = "tuple" -> \A i \in 1..Len(v.l) : Hashable(v.l[i])
      [] OTHER -> TRUE

(* tuple(item) *)
ToTuple(item) == PyTup(Items(item))

Range(seq) == {seq[i] : i \in 1..Len(seq)}

(* Greatest common divisor, for fractions in lowest terms. *)
RECURSIVE Gcd(_, _)
Gcd(a, b) == IF b = 0 THEN a ELSE Gcd(b, a % b)

(* A float result: the exact quotient num / den, den > 0. *)
Float(num, den) ==
    LET g == Gcd(num, den)
    IN  [exc |-> "", num |-> num \div g, den |-> den \div g]

(* An exception escaping the call. *)
Raise(kind) == [exc |-> kind, num |-> 0, den |-> 0]

(* The outcome of an expression: its value, or the exception it raised. *)
Val(v) == [exc |-> "", v |-> v]

Exc(kind) == [exc |-> kind, v |-> PyNone]

(* key in d, for a dict d. *)
DictHas(d, key) == \E i \in 1..(Len(d.l) \div 2) : d.l[2 * i - 1] = key

(* d[key] for a string key: KeyError when a dict lacks it, TypeError when  *)
(* d is no dict (a list, a str, a number or None subscripted by a str).    *)
GetKey(d, key) ==
    IF d.t # "dict" THEN Exc("TypeError")
    ELSE IF ~DictHas(d, key) THEN Exc("KeyError")
    ELSE Val(d.l[2 * (CHOOSE i \in 1..(Len(d.l) \div 2) : d.l[2 * i - 1] = key)])

(* v[i] for an integer i: 0-based, a negative i counts from the end,       *)
(* IndexError outside -len .. len-1; a dict has no such key; a number or   *)
(* None is not subscriptable.                                              *)
GetIndex(v, i) ==
    IF v.t = "dict" THEN Exc("KeyError")
    ELSE IF v.t \notin {"list", "tuple", "str"} THEN Exc("TypeError")
    ELSE LET n == Len(Items(v))
         IN  IF 0 <= i /\ i < n THEN Val(Items(v)[i + 1])
             ELSE IF -n <= i /\ i < 0 THEN Val(Items(v)[n + i + 1])
             ELSE Exc("IndexError")

DecimalDigits == {"0", "1", "2", "3", "4", "5", "6", "7", "8", "9"}

DigitValue(c) ==
    CASE c = "0" -> 0 [] c = "1" -> 1 [] c = "2" -> 2 [] c = "3" -> 3
      [] c = "4" -> 4 [] c = "5" -> 5 [] c = "6" -> 6 [] c = "7" -> 7
      [] c = "8" -> 8 [] c = "9" -> 9

(* The number a run of decimal digits writes. *)
RECURSIVE DecimalValue(_)
DecimalValue(chars) ==
    IF chars = <<>> THEN 0
    ELSE 10 * DecimalValue(SubSeq(chars, 1, Len(chars) - 1))
         + DigitValue(chars[Len(chars)])

(* int(x): an int as it is; a str of an optional sign and decimal digits   *)
(* parsed, any other str a ValueError; a list, dict or None a TypeError.   *)
(* The result is [exc, n].                                                 *)
int(x) ==
    CASE x.t = "int" -> [exc |-> "", n |-> x.n]
      [] x.t = "str" ->
           LET Parse(negative, digits) ==
                   IF digits # <<>> /\ Range(digits) \subseteq DecimalDigits
                   THEN [exc |-> "",
                         n |-> IF negative THEN 0 - DecimalValue(digits)
                               ELSE DecimalValue(digits)]
                   ELSE [exc |-> "ValueError", n |-> 0]
           IN  IF Len(x.s) > 0 /\ x.s[1] \in {"-", "+"}
               THEN Parse(x.s[1] = "-", Tail(x.s))
               ELSE Parse(FALSE, x.s)
      [] OTHER -> [exc |-> "TypeError", n |-> 0]

-----------------------------------------------------------------------------
(* SGAdapterEvaluator.compute_iou *)

(* set(tuple(item) for item in lst): the set, or the exception raised. *)
TupleSet(lst) ==
    IF ~Iterable(lst) THEN [exc |-> "TypeError", set |-> {}]
    ELSE IF \E x \in Range(Items(lst)) : ~Iterable(x) \/ ~Hashable(ToTuple(x))
         THEN [exc |-> "TypeError", set |-> {}]
         ELSE [exc |-> "", set |-> {ToTuple(x) : x \in Range(Items(lst))}]

(* set(lst) *)
PlainSet(lst) ==
    IF ~Iterable(lst) THEN [exc |-> "TypeError", set |-> {}]
    ELSE IF \E x \in Range(Items(lst)) : ~Hashable(x)
         THEN [exc |-> "TypeError", set |-> {}]
         ELSE [exc |-> "", set |-> Range(Items(lst))]

(* Mutant: the union counted as len(set1) + len(set2). *)
IouOfSets_SumUnion(set1, set2) ==
    LET intersection == Cardinality(set1 \cap set2)
        union == Cardinality(set1) + Cardinality(set2)
    IN  IF union > 0 THEN Float(intersection, union) ELSE Float(0, 1)

(* Mutant: the union taken to be set1 alone. *)
IouOfSets_FirstOnly(set1, set2) ==
    LET intersection == Cardinality(set1 \cap set2)
        union == Cardinality(set1)
    IN  IF union > 0 THEN Float(intersection, union) ELSE Float(0, 1)

(* Mutant: the quotient is taken upside down. *)
IouOfSets_Inverted(set1, set2) ==
    LET intersection == Cardinality(set1 \cap set2)
        union == Cardinality(set1 \cup set2)
    IN  IF intersection > 0 THEN Float(union, intersection) ELSE Float(0, 1)

(* intersection / union if union > 0 else 0.0 *)
IouOfSets(set1, set2) ==
    LET intersection == Cardinality(set1 \cap set2)
        union == Cardinality(set1 \cup set2)
    IN  IF union > 0 THEN Float(intersection, union) ELSE Float(0, 1)

(* Mutant: the lists are never turned into sets, so duplicates count. *)
compute_iou_NoSets(list1, list2) ==
    IF ~Truthy(list1) /\ ~Truthy(list2) THEN Float(1, 1)
    ELSE IF ~Truthy(list1) \/ ~Truthy(list2) THEN Float(0, 1)
    ELSE LET a == Items(list1)
             b == Items(list2)
             intersection == Cardinality({i \in 1..Len(a) : a[i] \in Range(b)})
             union == Len(a) + Len(b) - intersection
         IN  Float(intersection, union)

compute_iou(list1, list2) ==
    LET OfSets(set1, set2) ==
            IF set1.exc # "" THEN Raise(set1.exc)
            ELSE IF set2.exc # "" THEN Raise(set2.exc)
            ELSE IouOfSets(set1.set, set2.set)
    IN  IF ~Truthy(list1) /\ ~Truthy(list2) THEN Float(1, 1)
        ELSE IF ~Truthy(list1) \/ ~Truthy(list2) THEN Float(0, 1)
        ELSE IF list1.t \notin {"list", "tuple", "str"} THEN Raise("TypeError")
        ELSE IF Items(list1)[1].t = "list"
             THEN OfSets(TupleSet(list1), TupleSet(list2))
             ELSE OfSets(PlainSet(list1), PlainSet(list2))

-----------------------------------------------------------------------------
(* compute_iou on its own: the arguments are drawn from the lists of at    *)
(* most MaxLen strings and the lists of at most MaxLen triples.            *)

IouStrings == {cat, mat, dog}

IouTriples == {PyList(<<cat, on, mat>>), PyList(<<cat, on, dog>>),
               PyList(<<mat, on, cat>>)}

SeqsUpTo(S, n) == UNION {[1..k -> S] : k \in 0..n}

NoResult == Raise("not called")

(* The parts of the state a specification does not use stay as they are    *)
(* after construction.                                                     *)
IouIdle ==
    /\ iou_pc = "idle"
    /\ iou_list1 = <<>>
    /\ iou_list2 = <<>>
    /\ iou_out = NoResult

ZeroMetrics ==
    [sg_iou |-> [exc |-> "", num |-> 0, den |-> 1],
     entity_iou |-> [exc |-> "", num |-> 0, den |-> 1],
     relation_iou |-> [exc |-> "", num |-> 0, den |-> 1]]

EvalIdle ==
    /\ ev_pc = "idle"
    /\ ev_dir = {}
    /\ ev_output_file = ""
    /\ image_files = <<>>
    /\ ev_i = 1
    /\ results = <<>>
    /\ total_metrics = ZeroMetrics
    /\ evaluated = 0
    /\ skipped = 0
    /\ ev_response = [raises |-> FALSE, text |-> <<>>]
    /\ ev_exc = ""
    /\ ev_output = <<>>
    /\ oracle_calls = <<>>
    /\ clock = 0
    /\ fs = {}

LoadIdle ==
    /\ ld_pc = "idle"
    /\ ld_lines = <<>>
    /\ ld_i = 1
    /\ ld_exc = ""
    /\ metadata_list = <<>>
    /\ object_list = {}
    /\ predicate_list = {}

MainIdle ==
    /\ main_pc = "idle"
    /\ main_key = FALSE
    /\ main_meta = <<>>
    /\ main_repo = [gnn_run |-> <<>>, repr_run |-> <<>>]
    /\ main_scenes = <<>>
    /\ methods_found = <<>>
    /\ cm_i = 1
    /\ comparison = <<>>
    /\ main_summary = <<>>
    /\ main_exc = ""

FilterIdle ==
    /\ fl_pc = "idle"
    /\ fl_metric = ""
    /\ fl_out = <<>>
    /\ fl_again = <<>>
    /\ fl_exc = ""

MappingIdle ==
    /\ sm_pc = "idle"
    /\ sm_auto = FALSE
    /\ sm_lines = <<>>
    /\ sm_tree = <<>>
    /\ sm_metadata = <<>>
    /\ scene_dirs = <<>>
    /\ sm_i = 1
    /\ mapping = <<>>
    /\ sm_exc = ""

InitIoU ==
    /\ LoadIdle
    /\ EvalIdle
    /\ MainIdle
    /\ FilterIdle
    /\ MappingIdle
    /\ iou_pc = "call"
    /\ \E kind \in {IouStrings, IouTriples} :
          /\ iou_list1 \in SeqsUpTo(kind, MaxLen)
          /\ iou_list2 \in SeqsUpTo(kind, MaxLen)
    /\ iou_out = NoResult

CallComputeIou ==
    /\ iou_pc = "call"
    /\ iou_out' = compute_iou(PyList(iou_list1), PyList(iou_list2))
    /\ iou_pc' = "done"
    /\ UNCHANGED <<iou_list1, iou_list2>>
    /\ UNCHANGED <<ld_vars, ev_vars, mn_vars, fl_vars, sm_vars>>

NextIoU == CallComputeIou

SpecIoU == InitIoU /\ [][NextIoU]_vars

-----------------------------------------------------------------------------
(* The metadata file.  A line is [doc |-> d]: d is the value json.loads    *)
(* gives for the line's text, NoDoc for a line of white space only (its    *)
(* strip() is empty), or JunkDoc for text that is not JSON.                *)

NoDoc == [t |-> "nodoc", s |-> <<"\n">>, n |-> 0, l |-> <<>>]

SpaceDoc == [t |-> "nodoc", s |-> <<" ", " ", "\n">>, n |-> 0, l |-> <<>>]

JunkDoc == [t |-> "junk", s |-> <<"{", "\n">>, n |-> 0, l |-> <<>>]

K_file_name == PyStr(<<"f", "i", "l", "e", "_", "n", "a", "m", "e">>)

K_caption == PyStr(<<"c", "a", "p", "t", "i", "o", "n">>)

K_objects == PyStr(<<"o", "b", "j", "e", "c", "t", "s">>)

K_relations == PyStr(<<"r", "e", "l", "a", "t", "i", "o", "n", "s">>)

(* A metadata record as json.loads returns it. *)
MetaDoc(file_name, caption, objects, relations) ==
    PyDict(<<K_file_name, PyStr(<<file_name>>), K_caption, PyStr(<<caption>>),
             K_objects, PyList(objects), K_relations, PyList(relations)>>)

Rel(subj, pred, obj) == PyList(<<subj, pred, obj>>)

(* The lines metadata files are made of. *)
LineEmpty == [doc |-> NoDoc]

LineSpaces == [doc |-> SpaceDoc]

LineJunk == [doc |-> JunkDoc]

(* {"file_name":"a","caption":"c","objects":["cat","mat"],"relations":[[0,"on",1]]} *)
LineCatOnMat ==
    [doc |-> MetaDoc("a", "c", <<cat, mat>>, <<Rel(PyInt(0), on, PyInt(1))>>)]

(* indices given as numeric strings: [["1","under","0"]] *)
LineStrIdx ==
    [doc |-> MetaDoc("b", "d", <<cat, mat>>,
                     <<Rel(PyStr(<<"1">>), under, PyStr(<<"0">>))>>)]

(* two relations, one index written "01" *)
LineTwoRels ==
    [doc |-> MetaDoc("b", "c", <<dog, mat>>,
                     <<Rel(PyInt(0), on, PyInt(1)),
                       Rel(PyStr(<<"0", "1">>), under, PyInt(0))>>)]

(* no relations *)
LineNoRels == [doc |-> MetaDoc("a", "d", <<dog>>, <<>>)]

(* a negative subject index: [[-1,"on",0]] *)
LineNegIdx ==
    [doc |-> MetaDoc("a", "c", <<cat, mat>>, <<Rel(PyInt(-1), on, PyInt(0))>>)]

(* an object index past the end: [[0,"on",2]] *)
LinePastEnd ==
    [doc |-> MetaDoc("b", "c", <<cat, mat>>, <<Rel(PyInt(0), on, PyInt(2))>>)]

(* an index that is no number: [["x","on",0]] *)
LineBadInt ==
    [doc |-> MetaDoc("a", "c", <<cat, mat>>,
                     <<Rel(PyStr(<<"x">>), on, PyInt(0))>>)]

(* no "caption" field *)
LineNoCaption ==
    [doc |-> PyDict(<<K_file_name, PyStr(<<"b">>), K_objects, PyList(<<cat>>),
                      K_relations, PyList(<<>>)>>)]

LoadLines == {LineEmpty, LineSpaces, LineJunk, LineCatOnMat, LineStrIdx,
              LineTwoRels, LineNoRels, LineNegIdx, LinePastEnd, LineBadInt,
              LineNoCaption}

(* line.strip(): the line without its surrounding white space. *)
Strip(line) == IF line.doc.t = "nodoc" THEN <<>> ELSE <<line.doc>>

(* json.loads(line) *)
JsonLoads(line) ==
    IF line.doc.t \in {"junk", "nodoc"} THEN Exc("JSONDecodeError")
    ELSE Val(line.doc)

-----------------------------------------------------------------------------
(* SGAdapterEvaluator.load_metadata *)

(* Mutant: subject and object are taken from each other's index. *)
RelationTriple_Swapped(objects, rel) ==
    LET Triple(subj, pred, obj) ==
            IF subj.exc # "" THEN Exc(subj.exc)
            ELSE IF obj.exc # "" THEN Exc(obj.exc)
            ELSE Val(PyList(<<subj.v, pred, obj.v>>))
        Resolve(r0, subj_idx, r1, r2, obj_idx) ==
            IF r0.exc # "" THEN Exc(r0.exc)
            ELSE IF subj_idx.exc # "" THEN Exc(subj_idx.exc)
            ELSE IF r1.exc # "" THEN Exc(r1.exc)
            ELSE IF r2.exc # "" THEN Exc(r2.exc)
            ELSE IF obj_idx.exc # "" THEN Exc(obj_idx.exc)
            ELSE Triple(GetIndex(objects, obj_idx.n), r1.v,
                        GetIndex(objects, subj_idx.n))
    IN  Resolve(GetIndex(rel, 0), int(GetIndex(rel, 0).v), GetIndex(rel, 1),
                GetIndex(rel, 2), int(GetIndex(rel, 2).v))

(* One pass of 'for rel in relations_idx': the triple appended to          *)
(* scene_graph, or the exception raised.                                   *)
RelationTriple(objects, rel) ==
    LET Triple(subj, pred, obj) ==
            IF subj.exc # "" THEN Exc(subj.exc)
            ELSE IF obj.exc # "" THEN Exc(obj.exc)
            ELSE Val(PyList(<<subj.v, pred, obj.v>>))
        Resolve(r0, subj_idx, r1, r2, obj_idx) ==
            IF r0.exc # "" THEN Exc(r0.exc)
            ELSE IF subj_idx.exc # "" THEN Exc(subj_idx.exc)
            ELSE IF r1.exc # "" THEN Exc(r1.exc)
            ELSE IF r2.exc # "" THEN Exc(r2.exc)
            ELSE IF obj_idx.exc # "" THEN Exc(obj_idx.exc)
            ELSE Triple(GetIndex(objects, subj_idx.n), r1.v,
                        GetIndex(objects, obj_idx.n))
    IN  Resolve(GetIndex(rel, 0), int(GetIndex(rel, 0).v), GetIndex(rel, 1),
                GetIndex(rel, 2), int(GetIndex(rel, 2).v))

(* The scene_graph list built from relations_idx, or the first exception. *)
SceneGraph(objects, relations_idx) ==
    LET Collect(triples) ==
            LET bad == {k \in 1..Len(triples) : triples[k].exc # ""}
            IN  IF bad # {}
                THEN Exc(triples[CHOOSE k \in bad : \A j \in bad : k <= j].exc)
                ELSE Val(PyList([k \in 1..Len(triples) |-> triples[k].v]))
    IN  IF ~Iterable(relations_idx) THEN Exc("TypeError")
        ELSE Collect([k \in 1..Len(Items(relations_idx)) |->
                         RelationTriple(objects, Items(relations_idx)[k])])

(* The body of 'if line.strip():' for one line: the metadata_entry and the *)
(* additions to the vocabulary, or the exception raised.                   *)
LoadEntry(line) ==
    LET none == [exc |-> "", entry |-> <<>>, objects |-> {}, predicates |-> {}]
        Entry(objects, relations_idx, scene_graph, file_name, caption) ==
            IF scene_graph.exc # "" THEN [none EXCEPT !.exc = scene_graph.exc]
            ELSE IF file_name.exc # "" THEN [none EXCEPT !.exc = file_name.exc]
            ELSE IF caption.exc # "" THEN [none EXCEPT !.exc = caption.exc]
            ELSE
            LET preds == {GetIndex(r, 1).v : r \in Range(Items(relations_idx))}
            IN  IF ~Iterable(objects)
                   \/ \E x \in Range(Items(objects)) \cup preds : ~Hashable(x)
                THEN [none EXCEPT !.exc = "TypeError"]
                ELSE [exc |-> "",
                      entry |-> <<[file_name |-> file_name.v,
                                   caption |-> caption.v,
                                   scene_graph |-> scene_graph.v,
                                   objects |-> objects,
                                   relations |-> relations_idx]>>,
                      objects |-> Range(Items(objects)),
                      predicates |-> preds]
        Fields(data, objects, relations_idx) ==
            IF objects.exc # "" THEN [none EXCEPT !.exc = objects.exc]
            ELSE IF relations_idx.exc # ""
                 THEN [none EXCEPT !.exc = relations_idx.exc]
            ELSE Entry(objects.v, relations_idx.v,
                       SceneGraph(objects.v, relations_idx.v),
                       GetKey(data, K_file_name), GetKey(data, K_caption))
        Parsed(data) ==
            IF data.exc # "" THEN [none EXCEPT !.exc = data.exc]
            ELSE Fields(data.v, GetKey(data.v, K_objects),
                        GetKey(data.v, K_relations))
    IN  Parsed(JsonLoads(line))

(* Mutant: the vocabulary is emptied when a load begins. *)
LoadMetadataEnter_Reset(lines) ==
    /\ ld_pc' = "reading"
    /\ ld_lines' = lines
    /\ ld_i' = 1
    /\ ld_exc' = ""
    /\ metadata_list' = <<>>
    /\ object_list' = {}
    /\ predicate_list' = {}

(* metadata_list = [] and the file is opened. *)
LoadMetadataEnter(lines) ==
    /\ ld_pc' = "reading"
    /\ ld_lines' = lines
    /\ ld_i' = 1
    /\ ld_exc' = ""
    /\ metadata_list' = <<>>
    /\ UNCHANGED <<object_list, predicate_list>>

(* One pass of 'for line in f'. *)
LoadMetadataLine ==
    /\ ld_pc = "reading"
    /\ ld_i <= Len(ld_lines)
    /\ IF Strip(ld_lines[ld_i]) = <<>>
       THEN /\ ld_i' = ld_i + 1
            /\ UNCHANGED <<ld_pc, ld_exc, metadata_list, object_list,
                           predicate_list>>
       ELSE \E got \in {LoadEntry(ld_lines[ld_i])} :
               IF got.exc # ""
               THEN /\ ld_pc' = "raised"
                    /\ ld_exc' = got.exc
                    /\ UNCHANGED <<ld_i, metadata_list, object_list,
                                   predicate_list>>
               ELSE /\ metadata_list' = metadata_list \o got.entry
                    /\ object_list' = object_list \cup got.objects
                    /\ predicate_list' = predicate_list \cup got.predicates
                    /\ ld_i' = ld_i + 1
                    /\ UNCHANGED <<ld_pc, ld_exc>>
    /\ UNCHANGED ld_lines

(* return metadata_list *)
LoadMetadataReturn ==
    /\ ld_pc = "reading"
    /\ ld_i > Len(ld_lines)
    /\ ld_pc' = "returned"
    /\ UNCHANGED <<ld_lines, ld_i, ld_exc, metadata_list, object_list,
                   predicate_list>>

-----------------------------------------------------------------------------
(* load_metadata on its own, on every file of at most MaxLines lines.      *)

InitLoad ==
    /\ IouIdle
    /\ EvalIdle
    /\ MainIdle
    /\ FilterIdle
    /\ MappingIdle
    /\ ld_pc = "reading"
    /\ ld_lines \in SeqsUpTo(LoadLines, MaxLines)
    /\ ld_i = 1
    /\ ld_exc = ""
    /\ metadata_list = <<>>
    /\ object_list = {}
    /\ predicate_list = {}

NextLoad ==
    \/ LoadMetadataLine /\ UNCHANGED <<iou_vars, fl_vars, sm_vars, ev_vars, mn_vars>>
    \/ LoadMetadataReturn /\ UNCHANGED <<iou_vars, fl_vars, sm_vars, ev_vars, mn_vars>>

SpecLoad == InitLoad /\ [][NextLoad]_vars

-----------------------------------------------------------------------------
(* File names and their order.  A name is the sequence of its characters;  *)
(* "sup2" stands for the one character SUPERSCRIPT TWO (U+00B2), for which *)
(* str.isdigit() is true and int() raises ValueError.                      *)

(* The characters of the model in code point order. *)
Alphabet ==
    <<".", "0", "1", "2", "3", "4", "5", "6", "7", "8", "9", "_",
      "a", "b", "c", "d", "e", "f", "g", "h", "i", "j", "k", "l", "m",
      "n", "o", "p", "q", "r", "s", "t", "u", "v", "w", "x", "y", "z", "sup2">>

CodePoint(c) == CHOOSE i \in 1..Len(Alphabet) : Alphabet[i] = c

(* a < b for two strings, as sorted() compares them. *)
RECURSIVE StrLess(_, _)
StrLess(a, b) ==
    IF b = <<>> THEN FALSE
    ELSE IF a = <<>> THEN TRUE
    ELSE IF Head(a) # Head(b) THEN CodePoint(Head(a)) < CodePoint(Head(b))
    ELSE StrLess(Tail(a), Tail(b))

(* Mutant: the names are left in reverse order. *)
RECURSIVE sorted_Reversed(_)
sorted_Reversed(S) ==
    IF S = {} THEN <<>>
    ELSE LET hi == CHOOSE x \in S : \A y \in S \ {x} : StrLess(y, x)
         IN  <<hi>> \o sorted_Reversed(S \ {hi})

(* sorted(S) for a set of distinct strings. *)
RECURSIVE sorted(_)
sorted(S) ==
    IF S = {} THEN <<>>
    ELSE LET lo == CHOOSE x \in S : \A y \in S \ {x} : StrLess(x, y)
         IN  <<lo>> \o sorted(S \ {lo})

Name000 == <<"0", "0", "0", ".", "p", "n", "g">>

Name000_002 == <<"0", "0", "0", "_", "0", "0", "2", ".", "p", "n", "g">>

Name1 == <<"1", ".", "j", "p", "g">>

Name02 == <<"0", "2", ".", "p", "n", "g">>

Name7 == <<"7", ".", "p", "n", "g">>

NameFoo == <<"f", "o", "o", ".", "p", "n", "g">>

NameSup2 == <<"sup2", "_", "1", ".", "p", "n", "g">>

(* The image files a directory may hold. *)
DirNames == {Name000, Name000_002, Name1, Name02, Name7, NameFoo, NameSup2}

(* os.path.splitext(base_name)[0]: the name up to its last dot, leading    *)
(* dots not counted as the start of an extension.                          *)
SplitExtStem(name) ==
    LET dots == {i \in 1..Len(name) :
                    name[i] = "." /\ \E j \in 1..(i - 1) : name[j] # "."}
    IN  IF dots = {} THEN name
        ELSE SubSeq(name, 1, (CHOOSE i \in dots : \A j \in dots : j <= i) - 1)

(* Mutant: the part after the last underscore is taken. *)
SplitFirst_Last(stem) ==
    LET us == {i \in 1..Len(stem) : stem[i] = "_"}
    IN  IF us = {} THEN stem
        ELSE SubSeq(stem, (CHOOSE i \in us : \A j \in us : j <= i) + 1, Len(stem))

(* name_without_ext.split('_')[0] *)
SplitFirst(stem) ==
    LET us == {i \in 1..Len(stem) : stem[i] = "_"}
    IN  IF us = {} THEN stem
        ELSE SubSeq(stem, 1, (CHOOSE i \in us : \A j \in us : i <= j) - 1)

(* first_part.isdigit(): non-empty and every character a digit, the        *)
(* superscript digits included.                                            *)
isdigit(chars) ==
    chars # <<>> /\ Range(chars) \subseteq DecimalDigits \cup {"sup2"}

(* The scene_idx evaluate_method extracts from a file name: [found, idx],  *)
(* found FALSE for None.  The ValueError of int() is swallowed by the bare *)
(* except.                                                                 *)
SceneIdx(base_name) ==
    LET Parsed(first_part, number) ==
            IF isdigit(first_part) /\ number.exc = ""
            THEN [found |-> TRUE, idx |-> number.n]
            ELSE [found |-> FALSE, idx |-> 0]
    IN  Parsed(SplitFirst(SplitExtStem(base_name)),
               int(PyStr(SplitFirst(SplitExtStem(base_name)))))

(* scene_idx is not None and scene_idx < len(metadata_list) *)
HasMetadata(idx, records) == idx.found /\ idx.idx < Len(records)

-----------------------------------------------------------------------------
(* The oracle.  A response either raises (the image cannot be opened, the  *)
(* request fails, response.text is refused) or carries a text, modelled as *)
(* a sequence of tokens: a code fence (three backquotes), the word json,   *)
(* white space, a JSON document (held as the value json.loads gives for    *)
(* it), or other text.                                                     *)

Fence == [tok |-> "fence", v |-> PyNone]

WordJson == [tok |-> "json", v |-> PyNone]

Newline == [tok |-> "\n", v |-> PyNone]

Prose == [tok |-> "prose", v |-> PyNone]

Doc(v) == [tok |-> "doc", v |-> v]

K_scene_graph ==
    PyStr(<<"s", "c", "e", "n", "e", "_", "g", "r", "a", "p", "h">>)

K_entities == PyStr(<<"e", "n", "t", "i", "t", "i", "e", "s">>)

sofa == PyStr(<<"s", "o", "f", "a">>)

near == PyStr(<<"n", "e", "a", "r">>)

Graph(triples, entities) ==
    PyDict(<<K_scene_graph, triples, K_entities, entities>>)

Answer(text) == [raises |-> FALSE, text |-> text]

(* the request raises *)
RespRaises == [raises |-> TRUE, text |-> <<>>]

(* text that is not JSON *)
RespProse == Answer(<<Prose, Newline>>)

(* {"scene_graph": [["cat","on","mat"]], "entities": ["cat","mat"]} *)
RespCatOnMat ==
    Answer(<<Doc(Graph(PyList(<<PyList(<<cat, on, mat>>)>>),
                       PyList(<<cat, mat>>)))>>)

(* a fenced json code block; one triple right, one with words outside the    *)
(* vocabulary, the triple and an entity given twice                        *)
RespFencedMixed ==
    Answer(<<Fence, WordJson, Newline,
             Doc(Graph(PyList(<<PyList(<<cat, on, mat>>),
                                PyList(<<sofa, near, cat>>),
                                PyList(<<cat, on, mat>>)>>),
                       PyList(<<cat, sofa, cat>>))),
             Newline, Fence, Newline>>)

(* {"scene_graph": [], "entities": []} in a fence without the word json *)
RespEmpty ==
    Answer(<<Fence, Newline, Doc(Graph(PyList(<<>>), PyList(<<>>))), Fence>>)

(* the "entities" field is missing *)
RespNoEntities ==
    Answer(<<Doc(PyDict(<<K_scene_graph, PyList(<<PyList(<<cat, on, mat>>)>>)>>))>>)

(* {"scene_graph": null, "entities": null} *)
RespNulls == Answer(<<Doc(Graph(PyNone, PyNone))>>)

(* a triple with one element: {"scene_graph": [["cat"]], "entities": ["cat"]} *)
RespShortTriple ==
    Answer(<<Doc(Graph(PyList(<<PyList(<<cat>>)>>), PyList(<<cat>>)))>>)

(* entities that are lists: {"scene_graph": [...], "entities": [["cat"]]}  *)
RespListEntities ==
    Answer(<<Doc(Graph(PyList(<<PyList(<<cat, on, mat>>)>>),
                       PyList(<<PyList(<<cat>>)>>)))>>)

(* a JSON list naming both fields: ["scene_graph", "entities"] *)
RespKeyList == Answer(<<Doc(PyList(<<K_scene_graph, K_entities>>))>>)

OracleResponses ==
    {RespRaises, RespProse, RespCatOnMat, RespFencedMixed, RespEmpty,
     RespNoEntities, RespNulls, RespShortTriple, RespListEntities, RespKeyList}

(* text.strip() *)
RECURSIVE StripText(_)
StripText(text) ==
    IF text = <<>> THEN text
    ELSE IF Head(text) = Newline THEN StripText(Tail(text))
    ELSE IF text[Len(text)] = Newline
         THEN StripText(SubSeq(text, 1, Len(text) - 1))
    ELSE text

(* response_text.split(fence)[1], for a text that starts with a fence *)
AfterFence(text) ==
    LET rest == Tail(text)
        fences == {i \in 1..Len(rest) : rest[i] = Fence}
    IN  IF fences = {} THEN rest
        ELSE SubSeq(rest, 1, (CHOOSE i \in fences : \A j \in fences : i <= j) - 1)

(* The text handed to json.loads, markdown code fences removed. *)
Unfenced(response_text) ==
    IF response_text # <<>> /\ Head(response_text) = Fence
    THEN LET inner == AfterFence(response_text)
         IN  StripText(IF inner # <<>> /\ Head(inner) = WordJson
                       THEN Tail(inner) ELSE inner)
    ELSE response_text

(* json.loads(response_text): white space around one document is allowed. *)
JsonLoadsText(text) ==
    LET body == StripText(text)
    IN  IF Len(body) = 1 /\ body[1].tok = "doc" THEN Val(body[1].v)
        ELSE Exc("JSONDecodeError")

(* needle in hay, for two strings *)
Substring(needle, hay) ==
    \E k \in 0..(Len(hay) - Len(needle)) :
        SubSeq(hay, k + 1, k + Len(needle)) = needle

(* key in result: "yes", "no", or "TypeError" for a number or None *)
Contains(result, key) ==
    CASE result.t = "dict" -> IF DictHas(result, key) THEN "yes" ELSE "no"
      [] result.t \in {"list", "tuple"} ->
           IF key \in Range(result.l) THEN "yes" ELSE "no"
      [] result.t = "str" -> IF Substring(key.s, result.s) THEN "yes" ELSE "no"
      [] OTHER -> "TypeError"

(* {"scene_graph": [], "entities": []} *)
EmptyPrediction == Graph(PyList(<<>>), PyList(<<>>))

-----------------------------------------------------------------------------
(* SGAdapterEvaluator.extract_scene_graph_from_image: what it returns for  *)
(* an oracle response.  Every exception inside the try is answered with    *)
(* the empty prediction.                                                   *)

extract_scene_graph_from_image(response) ==
    LET Checked(result) ==
            IF result.exc # "" THEN EmptyPrediction
            ELSE IF Contains(result.v, K_scene_graph) # "yes"
                    \/ Contains(result.v, K_entities) # "yes"
                 THEN EmptyPrediction
            ELSE result.v
    IN  IF response.raises THEN EmptyPrediction
        ELSE Checked(JsonLoadsText(Unfenced(StripText(response.text))))

-----------------------------------------------------------------------------
(* SGAdapterEvaluator.evaluate_image *)

(* [sg[i] for sg in graph]: the list, or the exception raised *)
Column(graph, i) ==
    LET Collect(cells) ==
            LET bad == {k \in 1..Len(cells) : cells[k].exc # ""}
            IN  IF bad # {}
                THEN Exc(cells[CHOOSE k \in bad : \A j \in bad : k <= j].exc)
                ELSE Val(PyList([k \in 1..Len(cells) |-> cells[k].v]))
    IN  IF ~Iterable(graph) THEN Exc("TypeError")
        ELSE Collect([k \in 1..Len(Items(graph)) |-> GetIndex(Items(graph)[k], i)])

(* list(set(items)): the distinct items in some order; the order is not    *)
(* read by compute_iou, which turns the list into a set again.             *)
RECURSIVE ListOfSet(_)
ListOfSet(S) ==
    IF S = {} THEN <<>>
    ELSE LET x == CHOOSE y \in S : TRUE IN <<x>> \o ListOfSet(S \ {x})

(* Mutant: the predicted entities are taken from the predicted triples     *)
(* instead of the "entities" field.                                        *)
evaluate_image_DerivedEntities(response, ground_truth_sg) ==
    LET fail == [exc |-> "", sg_iou |-> NoResult, entity_iou |-> NoResult,
                 relation_iou |-> NoResult, predicted_sg |-> PyNone,
                 predicted_entities |-> PyNone]
        Metrics(predicted_sg, predicted_entities, sg_iou, entity_iou,
                relation_iou) ==
            IF sg_iou.exc # "" THEN [fail EXCEPT !.exc = sg_iou.exc]
            ELSE IF entity_iou.exc # "" THEN [fail EXCEPT !.exc = entity_iou.exc]
            ELSE IF relation_iou.exc # ""
                 THEN [fail EXCEPT !.exc = relation_iou.exc]
            ELSE [exc |-> "", sg_iou |-> sg_iou, entity_iou |-> entity_iou,
                  relation_iou |-> relation_iou,
                  predicted_sg |-> predicted_sg,
                  predicted_entities |-> predicted_entities]
        Score(predicted_sg, predicted_entities, gt_entities, gt_relations,
              predicted_relations, derived) ==
            IF predicted_relations.exc # ""
            THEN [fail EXCEPT !.exc = predicted_relations.exc]
            ELSE Metrics(predicted_sg, predicted_entities,
                         compute_iou(ground_truth_sg, predicted_sg),
                         compute_iou(gt_entities, derived),
                         compute_iou(gt_relations, predicted_relations.v))
        Predicted(predicted_sg, predicted_entities) ==
            IF predicted_sg.exc # "" THEN [fail EXCEPT !.exc = predicted_sg.exc]
            ELSE IF predicted_entities.exc # ""
                 THEN [fail EXCEPT !.exc = predicted_entities.exc]
            ELSE Score(predicted_sg.v, predicted_entities.v,
                       PyList(ListOfSet(
                           Range(Column(ground_truth_sg, 0).v.l
                                 \o Column(ground_truth_sg, 2).v.l))),
                       Column(ground_truth_sg, 1).v,
                       IF Truthy(predicted_sg.v) THEN Column(predicted_sg.v, 1)
                       ELSE Val(PyList(<<>>)),
                       IF Truthy(predicted_sg.v)
                       THEN PyList(ListOfSet(
                                Range(Column(predicted_sg.v, 0).v.l
                                      \o Column(predicted_sg.v, 2).v.l)))
                       ELSE PyList(<<>>))
        Extracted(extracted) ==
            Predicted(GetKey(extracted, K_scene_graph),
                      GetKey(extracted, K_entities))
    IN  Extracted(extract_scene_graph_from_image(response))

(* The metrics of one image, [exc, sg_iou, entity_iou, relation_iou,       *)
(* predicted_sg, predicted_entities]; exc names the exception that escapes *)
(* evaluate_image, "" when it returns.                                     *)
evaluate_image(response, ground_truth_sg) ==
    LET fail == [exc |-> "", sg_iou |-> NoResult, entity_iou |-> NoResult,
                 relation_iou |-> NoResult, predicted_sg |-> PyNone,
                 predicted_entities |-> PyNone]
        Metrics(predicted_sg, predicted_entities, sg_iou, entity_iou,
                relation_iou) ==
            IF sg_iou.exc # "" THEN [fail EXCEPT !.exc = sg_iou.exc]
            ELSE IF entity_iou.exc # "" THEN [fail EXCEPT !.exc = entity_iou.exc]
            ELSE IF relation_iou.exc # ""
                 THEN [fail EXCEPT !.exc = relation_iou.exc]
            ELSE [exc |-> "", sg_iou |-> sg_iou, entity_iou |-> entity_iou,
                  relation_iou |-> relation_iou,
                  predicted_sg |-> predicted_sg,
                  predicted_entities |-> predicted_entities]
        Score(predicted_sg, predicted_entities, gt_entities, gt_relations,
              predicted_relations) ==
            IF predicted_relations.exc # ""
            THEN [fail EXCEPT !.exc = predicted_relations.exc]
            ELSE Metrics(predicted_sg, predicted_entities,
                         compute_iou(ground_truth_sg, predicted_sg),
                         compute_iou(gt_entities, predicted_entities),
                         compute_iou(gt_relations, predicted_relations.v))
        Predicted(predicted_sg, predicted_entities) ==
            IF predicted_sg.exc # "" THEN [fail EXCEPT !.exc = predicted_sg.exc]
            ELSE IF predicted_entities.exc # ""
                 THEN [fail EXCEPT !.exc = predicted_entities.exc]
            ELSE Score(predicted_sg.v, predicted_entities.v,
                       PyList(ListOfSet(
                           Range(Column(ground_truth_sg, 0).v.l
                                 \o Column(ground_truth_sg, 2).v.l))),
                       Column(ground_truth_sg, 1).v,
                       IF Truthy(predicted_sg.v) THEN Column(predicted_sg.v, 1)
                       ELSE Val(PyList(<<>>)))
        Extracted(extracted) ==
            Predicted(GetKey(extracted, K_scene_graph),
                      GetKey(extracted, K_entities))
    IN  Extracted(extract_scene_graph_from_image(response))

-----------------------------------------------------------------------------
(* SGAdapterEvaluator.evaluate_method.  Sums and means of floats are kept  *)
(* as exact fractions.                                                     *)

RateLimitSeconds == 2

(* Mutant: no time passes. *)
sleep_Skipped(now, seconds) == now

(* time.sleep(seconds): the time after the sleep that began at now *)
sleep(now, seconds) == now + seconds

(* x + y *)
AddFloat(x, y) == Float(x.num * y.den + y.num * x.den, x.den * y.den)

(* total / n_images if n_images > 0 else 0 *)
Average(total, n_images) ==
    IF n_images > 0 THEN Float(total.num, total.den * n_images)
    ELSE Float(0, 1)

(* The call of load_metadata, then results = [], total_metrics = 0 and the *)
(* sorted glob of the image files.                                         *)
EvaluateMethodEnter(images_dir, metadata_file, output_file) ==
    /\ LoadMetadataEnter(metadata_file)
    /\ ev_pc' = "load"
    /\ ev_dir' = images_dir
    /\ ev_output_file' = output_file
    /\ image_files' = <<>>
    /\ ev_i' = 1
    /\ results' = <<>>
    /\ total_metrics' = ZeroMetrics
    /\ evaluated' = 0
    /\ skipped' = 0
    /\ ev_exc' = ""
    /\ ev_output' = <<>>
    /\ UNCHANGED <<ev_response, oracle_calls, clock, fs>>

(* load_metadata has returned: lines 181 to 195. *)
EvaluateMethodGlob ==
    /\ ev_pc = "load"
    /\ ld_pc = "returned"
    /\ image_files' = sorted(ev_dir)
    /\ results' = <<>>
    /\ total_metrics' = ZeroMetrics
    /\ evaluated' = 0
    /\ skipped' = 0
    /\ ev_i' = 1
    /\ ev_pc' = "loop"
    /\ UNCHANGED <<ev_dir, ev_output_file, ev_response, ev_exc, ev_output,
                   oracle_calls, clock, fs>>
    /\ UNCHANGED ld_vars

(* Mutant: an image without metadata is also recorded, with zero scores. *)
SkipImage_ZeroScore ==
    /\ ev_pc = "loop"
    /\ ev_i <= Len(image_files)
    /\ ~HasMetadata(SceneIdx(image_files[ev_i]), metadata_list)
    /\ skipped' = skipped + 1
    /\ results' =
           Append(results,
                  [image |-> image_files[ev_i],
                   scene_index |-> SceneIdx(image_files[ev_i]).idx,
                   caption |-> PyNone,
                   ground_truth_sg |-> PyList(<<>>),
                   sg_iou |-> ZeroMetrics.sg_iou,
                   entity_iou |-> ZeroMetrics.entity_iou,
                   relation_iou |-> ZeroMetrics.relation_iou,
                   predicted_sg |-> PyList(<<>>),
                   predicted_entities |-> PyList(<<>>)])
    /\ ev_i' = ev_i + 1
    /\ UNCHANGED <<ev_pc, ev_dir, ev_output_file, image_files,
                   total_metrics, evaluated, ev_response, ev_exc, ev_output,
                   oracle_calls, clock, fs>>
    /\ UNCHANGED ld_vars

(* The image has no metadata: the warning, skipped += 1, continue. *)
SkipImage ==
    /\ ev_pc = "loop"
    /\ ev_i <= Len(image_files)
    /\ ~HasMetadata(SceneIdx(image_files[ev_i]), metadata_list)
    /\ skipped' = skipped + 1
    /\ ev_i' = ev_i + 1
    /\ UNCHANGED <<ev_pc, ev_dir, ev_output_file, image_files, results,
                   total_metrics, evaluated, ev_response, ev_exc, ev_output,
                   oracle_calls, clock, fs>>
    /\ UNCHANGED ld_vars

(* evaluate_image is entered and the oracle is asked about the image: the  *)
(* sorted vocabulary goes into the prompt, the oracle answers.             *)
CallOracle ==
    /\ ev_pc = "loop"
    /\ ev_i <= Len(image_files)
    /\ HasMetadata(SceneIdx(image_files[ev_i]), metadata_list)
    /\ \E response \in OracleResponses : ev_response' = response
    /\ oracle_calls' =
           Append(oracle_calls,
                  [image |-> image_files[ev_i],
                   at |-> clock,
                   object_list |-> sorted({o.s : o \in object_list}),
                   predicate_list |-> sorted({q.s : q \in predicate_list})])
    /\ ev_pc' = "scoring"
    /\ UNCHANGED <<ev_dir, ev_output_file, image_files, ev_i, results,
                   total_metrics, evaluated, skipped, ev_exc, ev_output,
                   clock, fs>>
    /\ UNCHANGED ld_vars

(* The rest of evaluate_image and of the loop body: the record is          *)
(* appended, the totals and evaluated grow, time.sleep(2); or an exception *)
(* of evaluate_image leaves evaluate_method.                               *)
ScoreImage ==
    /\ ev_pc = "scoring"
    /\ \E base_name \in {image_files[ev_i]} :
       \E scene_idx \in {SceneIdx(base_name).idx} :
       \E matching_meta \in {metadata_list[scene_idx + 1]} :
       \E metrics \in {evaluate_image(ev_response, matching_meta.scene_graph)} :
           IF metrics.exc # ""
           THEN /\ ev_pc' = "raised"
                /\ ev_exc' = metrics.exc
                /\ UNCHANGED <<ev_i, results, total_metrics, evaluated, clock>>
           ELSE /\ results' =
                       Append(results,
                              [image |-> base_name,
                               scene_index |-> scene_idx,
                               caption |-> matching_meta.caption,
                               ground_truth_sg |-> matching_meta.scene_graph,
                               sg_iou |-> metrics.sg_iou,
                               entity_iou |-> metrics.entity_iou,
                               relation_iou |-> metrics.relation_iou,
                               predicted_sg |-> metrics.predicted_sg,
                               predicted_entities |-> metrics.predicted_entities])
                /\ total_metrics' =
                       [sg_iou |-> AddFloat(total_metrics.sg_iou, metrics.sg_iou),
                        entity_iou |->
                            AddFloat(total_metrics.entity_iou, metrics.entity_iou),
                        relation_iou |->
                            AddFloat(total_metrics.relation_iou, metrics.relation_iou)]
                /\ evaluated' = evaluated + 1
                /\ clock' = sleep(clock, RateLimitSeconds)
                /\ ev_i' = ev_i + 1
                /\ ev_pc' = "loop"
                /\ UNCHANGED ev_exc
    /\ UNCHANGED <<ev_dir, ev_output_file, image_files, skipped, ev_response,
                   ev_output, oracle_calls, fs>>
    /\ UNCHANGED ld_vars

(* After the loop: the averages, the results file, return output. *)
EvaluateMethodReturn ==
    /\ ev_pc = "loop"
    /\ ev_i > Len(image_files)
    /\ LET n_images == Len(results)
           avg_metrics ==
               [sg_iou |-> Average(total_metrics.sg_iou, n_images),
                entity_iou |-> Average(total_metrics.entity_iou, n_images),
                relation_iou |-> Average(total_metrics.relation_iou, n_images),
                n_images |-> n_images]
       IN  ev_output' = <<[average_metrics |-> avg_metrics,
                           per_image_results |-> results]>>
    /\ fs' = IF ev_output_file # "" THEN fs \cup {ev_output_file} ELSE fs
    /\ ev_pc' = "returned"
    /\ UNCHANGED <<ev_dir, ev_output_file, image_files, ev_i, results,
                   total_metrics, evaluated, skipped, ev_response, ev_exc,
                   oracle_calls, clock>>
    /\ UNCHANGED ld_vars

-----------------------------------------------------------------------------
(* evaluate_method on its own: a freshly constructed evaluator, a metadata *)
(* file that loads, and an images directory of at most MaxImages files.    *)

(* scenes 0 and 1, a blank line between them *)
FileTwo == <<LineCatOnMat, LineEmpty, LineStrIdx>>

(* scene 0 without relations, scenes 1 and 2 *)
FileThree == <<LineNoRels, LineCatOnMat, LineTwoRels>>

EvalFiles == {FileTwo, FileThree}

InitEval ==
    /\ IouIdle
    /\ MainIdle
    /\ FilterIdle
    /\ MappingIdle
    /\ ld_pc = "reading"
    /\ ld_lines \in EvalFiles
    /\ ld_i = 1
    /\ ld_exc = ""
    /\ metadata_list = <<>>
    /\ object_list = {}
    /\ predicate_list = {}
    /\ ev_pc = "load"
    /\ ev_dir \in {S \in SUBSET DirNames : Cardinality(S) <= MaxImages}
    /\ ev_output_file = "results.json"
    /\ image_files = <<>>
    /\ ev_i = 1
    /\ results = <<>>
    /\ total_metrics = ZeroMetrics
    /\ evaluated = 0
    /\ skipped = 0
    /\ ev_response = [raises |-> FALSE, text |-> <<>>]
    /\ ev_exc = ""
    /\ ev_output = <<>>
    /\ oracle_calls = <<>>
    /\ clock = 0
    /\ fs = {}

NextEval ==
    \/ LoadMetadataLine /\ UNCHANGED <<iou_vars, fl_vars, sm_vars, ev_vars, mn_vars>>
    \/ LoadMetadataReturn /\ UNCHANGED <<iou_vars, fl_vars, sm_vars, ev_vars, mn_vars>>
    \/ EvaluateMethodGlob /\ UNCHANGED <<iou_vars, fl_vars, sm_vars, mn_vars>>
    \/ SkipImage /\ UNCHANGED <<iou_vars, fl_vars, sm_vars, mn_vars>>
    \/ CallOracle /\ UNCHANGED <<iou_vars, fl_vars, sm_vars, mn_vars>>
    \/ ScoreImage /\ UNCHANGED <<iou_vars, fl_vars, sm_vars, mn_vars>>
    \/ EvaluateMethodReturn /\ UNCHANGED <<iou_vars, fl_vars, sm_vars, mn_vars>>

SpecEval == InitEval /\ [][NextEval]_vars

-----------------------------------------------------------------------------
(* run_evaluation.py: scan_metadata_file, scan_repo_structure and main,    *)
(* with SGAdapterEvaluator.compare_methods.  What is only printed is left  *)
(* out, except where printing it can raise.                                *)

SampleScenes == 5

OutputDir == "evaluation_results"

(* os.path.join(output_dir, name) *)
PathJoin(dir, name) == dir \o "/" \o name

(* scenes[file_name] = data: an insertion-ordered dict as a sequence of    *)
(* [key, value]; a key already there keeps its place and takes the value.  *)
DictSet(d, key, value) ==
    IF \E i \in 1..Len(d) : d[i].key = key
    THEN [i \in 1..Len(d) |->
             IF d[i].key = key THEN [key |-> key, value |-> value] ELSE d[i]]
    ELSE Append(d, [key |-> key, value |-> value])

(* The body of 'if line.strip():' in scan_metadata_file for one parsed     *)
(* line: scenes, objects and predicates updated, or the exception raised.  *)
ScanEntry(acc, data) ==
    LET Update(file_name, objects, relations) ==
            IF file_name.exc # "" THEN [acc EXCEPT !.exc = file_name.exc]
            ELSE IF ~Hashable(file_name.v) THEN [acc EXCEPT !.exc = "TypeError"]
            ELSE IF objects.exc # "" THEN [acc EXCEPT !.exc = objects.exc]
            ELSE IF ~Iterable(objects.v)
                    \/ \E x \in Range(Items(objects.v)) : ~Hashable(x)
                 THEN [acc EXCEPT !.exc = "TypeError"]
            ELSE IF relations.exc # "" THEN [acc EXCEPT !.exc = relations.exc]
            ELSE IF ~Iterable(relations.v) THEN [acc EXCEPT !.exc = "TypeError"]
            ELSE LET rels == Range(Items(relations.v))
                 IN  IF \E r \in rels : GetIndex(r, 1).exc # ""
                     THEN [acc EXCEPT !.exc =
                              GetIndex(CHOOSE r \in rels : GetIndex(r, 1).exc # "",
                                       1).exc]
                     ELSE IF \E r \in rels : ~Hashable(GetIndex(r, 1).v)
                     THEN [acc EXCEPT !.exc = "TypeError"]
                     ELSE [exc |-> "",
                           scenes |-> DictSet(acc.scenes, file_name.v, data.v),
                           objects |-> acc.objects \cup Range(Items(objects.v)),
                           predicates |-> acc.predicates
                                          \cup {GetIndex(r, 1).v : r \in rels}]
    IN  IF data.exc # "" THEN [acc EXCEPT !.exc = data.exc]
        ELSE Update(GetKey(data.v, K_file_name), GetKey(data.v, K_objects),
                    GetKey(data.v, K_relations))

(* 'for line in f' of scan_metadata_file, up to the first exception. *)
RECURSIVE ScanLines(_)
ScanLines(lines) ==
    IF lines = <<>>
    THEN [exc |-> "", scenes |-> <<>>, objects |-> {}, predicates |-> {}]
    ELSE LET Step(acc, line) ==
                 IF acc.exc # "" \/ Strip(line) = <<>> THEN acc
                 ELSE ScanEntry(acc, JsonLoads(line))
         IN  Step(ScanLines(SubSeq(lines, 1, Len(lines) - 1)), lines[Len(lines)])

(* scan_metadata_file(metadata_file): [exc, found, scenes]; found is FALSE *)
(* for the None it returns when the file does not exist.  The report joins *)
(* the predicates, which must be strings, and prints the caption of the    *)
(* first SampleScenes scenes.                                              *)
scan_metadata_file(metadata_file) ==
    LET Report(acc) ==
            IF acc.exc # ""
            THEN [exc |-> acc.exc, found |-> TRUE, scenes |-> <<>>]
            ELSE IF \E q \in acc.predicates : q.t # "str"
            THEN [exc |-> "TypeError", found |-> TRUE, scenes |-> <<>>]
            ELSE IF \E i \in 1..Len(acc.scenes) :
                       /\ i <= SampleScenes
                       /\ GetKey(acc.scenes[i].value, K_caption).exc # ""
            THEN [exc |-> "KeyError", found |-> TRUE, scenes |-> <<>>]
            ELSE [exc |-> "", found |-> TRUE, scenes |-> acc.scenes]
    IN  IF metadata_file = <<>>
        THEN [exc |-> "", found |-> FALSE, scenes |-> <<>>]
        ELSE Report(ScanLines(metadata_file[1]))

(* scan_repo_structure(repo_dir): gnn_run first, then repr_run, each only  *)
(* when its images directory exists.                                       *)
scan_repo_structure(repo) ==
    LET Found(name, dir) ==
            IF dir = <<>> THEN <<>>
            ELSE <<[name |-> name,
                    images_dir |-> dir[1],
                    scenes |-> IF dir[1] = {} THEN 0 ELSE 1,
                    images |-> Cardinality(dir[1])]>>
    IN  Found("gnn_run", repo.gnn_run) \o Found("repr_run", repo.repr_run)

(* Lines 219 to 226: without the key, sys.exit(1). *)
MainCheckKey ==
    /\ main_pc = "start"
    /\ main_pc' = IF main_key THEN "scan_metadata" ELSE "exit"
    /\ UNCHANGED <<main_key, main_meta, main_repo, main_scenes, methods_found,
                   cm_i, comparison, main_summary, main_exc>>
    /\ UNCHANGED <<ld_vars, ev_vars>>

(* Lines 229 to 234: scan_metadata_file; sys.exit(1) on None. *)
MainScanMetadata ==
    /\ main_pc = "scan_metadata"
    /\ \E scenes \in {scan_metadata_file(main_meta)} :
          IF scenes.exc # ""
          THEN /\ main_pc' = "raised"
               /\ main_exc' = scenes.exc
               /\ UNCHANGED main_scenes
          ELSE IF ~scenes.found
          THEN /\ main_pc' = "exit"
               /\ UNCHANGED <<main_scenes, main_exc>>
          ELSE /\ main_pc' = "scan_repo"
               /\ main_scenes' = scenes.scenes
               /\ UNCHANGED main_exc
    /\ UNCHANGED <<main_key, main_meta, main_repo, methods_found, cm_i,
                   comparison, main_summary>>
    /\ UNCHANGED <<ld_vars, ev_vars>>

(* Lines 237 to 244: scan_repo_structure; sys.exit(1) when nothing found. *)
MainScanRepo ==
    /\ main_pc = "scan_repo"
    /\ methods_found' = scan_repo_structure(main_repo)
    /\ main_pc' = IF methods_found' = <<>> THEN "exit" ELSE "makedirs"
    /\ UNCHANGED <<main_key, main_meta, main_repo, main_scenes, cm_i,
                   comparison, main_summary, main_exc>>
    /\ UNCHANGED <<ld_vars, ev_vars>>

(* Lines 247 to 266: os.makedirs(args.output_dir), the evaluator is        *)
(* constructed with empty vocabulary, methods_config is methods_found.     *)
MainMakeDirs ==
    /\ main_pc = "makedirs"
    /\ fs' = fs \cup {OutputDir}
    /\ object_list' = {}
    /\ predicate_list' = {}
    /\ main_pc' = "compare"
    /\ UNCHANGED <<main_key, main_meta, main_repo, main_scenes, methods_found,
                   cm_i, comparison, main_summary, main_exc>>
    /\ UNCHANGED <<ld_pc, ld_lines, ld_i, ld_exc, metadata_list>>
    /\ UNCHANGED <<ev_pc, ev_dir, ev_output_file, image_files, ev_i, results,
                   total_metrics, evaluated, skipped, ev_response, ev_exc,
                   ev_output, oracle_calls, clock>>

(* compare_methods is entered: os.makedirs(output_dir), comparison = {}. *)
CompareMethodsEnter ==
    /\ main_pc = "compare"
    /\ fs' = fs \cup {OutputDir}
    /\ comparison' = <<>>
    /\ cm_i' = 1
    /\ main_pc' = "methods"
    /\ UNCHANGED <<main_key, main_meta, main_repo, main_scenes, methods_found,
                   main_summary, main_exc>>
    /\ UNCHANGED ld_vars
    /\ UNCHANGED <<ev_pc, ev_dir, ev_output_file, image_files, ev_i, results,
                   total_metrics, evaluated, skipped, ev_response, ev_exc,
                   ev_output, oracle_calls, clock>>

(* One pass of 'for config in methods_config' up to the call of            *)
(* evaluate_method.                                                        *)
CompareMethodsCall ==
    /\ main_pc = "methods"
    /\ cm_i <= Len(methods_found)
    /\ EvaluateMethodEnter(methods_found[cm_i].images_dir, main_meta[1],
                           PathJoin(OutputDir,
                                    methods_found[cm_i].name \o "_results.json"))
    /\ main_pc' = "evaluating"
    /\ UNCHANGED <<main_key, main_meta, main_repo, main_scenes, methods_found,
                   cm_i, comparison, main_summary, main_exc>>

(* evaluate_method has returned: comparison[method_name] is set. *)
CompareMethodsCollect ==
    /\ main_pc = "evaluating"
    /\ ev_pc = "returned"
    /\ comparison' = DictSet(comparison, methods_found[cm_i].name,
                             ev_output[1].average_metrics)
    /\ cm_i' = cm_i + 1
    /\ ev_pc' = "idle"
    /\ main_pc' = "methods"
    /\ UNCHANGED <<main_key, main_meta, main_repo, main_scenes, methods_found,
                   main_summary, main_exc>>
    /\ UNCHANGED ld_vars
    /\ UNCHANGED <<ev_dir, ev_output_file, image_files, ev_i, results,
                   total_metrics, evaluated, skipped, ev_response, ev_exc,
                   ev_output, oracle_calls, clock, fs>>

(* An exception of load_metadata or of evaluate_image leaves               *)
(* evaluate_method, compare_methods and main: nothing catches it.          *)
MainRaise ==
    /\ main_pc = "evaluating"
    /\ ld_pc = "raised" \/ ev_pc = "raised"
    /\ main_exc' = IF ld_pc = "raised" THEN ld_exc ELSE ev_exc
    /\ main_pc' = "raised"
    /\ UNCHANGED <<main_key, main_meta, main_repo, main_scenes, methods_found,
                   cm_i, comparison, main_summary>>
    /\ UNCHANGED <<ld_vars, ev_vars>>

(* After the loop of compare_methods: comparison.json is written. *)
CompareMethodsReturn ==
    /\ main_pc = "methods"
    /\ cm_i > Len(methods_found)
    /\ fs' = fs \cup {PathJoin(OutputDir, "comparison.json")}
    /\ main_pc' = "tables"
    /\ UNCHANGED <<main_key, main_meta, main_repo, main_scenes, methods_found,
                   cm_i, comparison, main_summary, main_exc>>
    /\ UNCHANGED ld_vars
    /\ UNCHANGED <<ev_pc, ev_dir, ev_output_file, image_files, ev_i, results,
                   total_metrics, evaluated, skipped, ev_response, ev_exc,
                   ev_output, oracle_calls, clock>>

(* Lines 279 to 304: the two tables and the summary are written. *)
MainTables ==
    /\ main_pc = "tables"
    /\ main_summary' =
           <<[methods_evaluated |-> [i \in 1..Len(comparison) |-> comparison[i].key],
              num_methods |-> Len(comparison),
              num_test_scenes |-> Len(main_scenes),
              metrics |-> comparison]>>
    /\ fs' = fs \cup {PathJoin(OutputDir, "results_table.tex"),
                      PathJoin(OutputDir, "results_table.md"),
                      PathJoin(OutputDir, "evaluation_summary.json")}
    /\ main_pc' = "done"
    /\ UNCHANGED <<main_key, main_meta, main_repo, main_scenes, methods_found,
                   cm_i, comparison, main_exc>>
    /\ UNCHANGED ld_vars
    /\ UNCHANGED <<ev_pc, ev_dir, ev_output_file, image_files, ev_i, results,
                   total_metrics, evaluated, skipped, ev_response, ev_exc,
                   ev_output, oracle_calls, clock>>

-----------------------------------------------------------------------------
(* A run of main: with or without the key, on a metadata file that is      *)
(* absent, sound or flawed, and a repository with either method directory. *)

MainFiles ==
    {FileTwo, <<LineJunk>>, <<LineCatOnMat, LinePastEnd>>, <<LineNegIdx>>,
     <<LineBadInt>>, <<LineNoCaption>>, <<LineNoCaption, LineStrIdx>>}

GnnDir == {Name000}

ReprDir == {Name1, NameFoo}

InitMain ==
    /\ IouIdle
    /\ LoadIdle
    /\ EvalIdle
    /\ FilterIdle
    /\ MappingIdle
    /\ main_pc = "start"
    /\ main_key \in BOOLEAN
    /\ main_meta \in {<<>>} \cup {<<file>> : file \in MainFiles}
    /\ main_repo \in [gnn_run : {<<>>, <<GnnDir>>}, repr_run : {<<>>, <<ReprDir>>}]
    /\ main_scenes = <<>>
    /\ methods_found = <<>>
    /\ cm_i = 1
    /\ comparison = <<>>
    /\ main_summary = <<>>
    /\ main_exc = ""

NextMain ==
    \/ MainCheckKey /\ UNCHANGED <<iou_vars, fl_vars, sm_vars>>
    \/ MainScanMetadata /\ UNCHANGED <<iou_vars, fl_vars, sm_vars>>
    \/ MainScanRepo /\ UNCHANGED <<iou_vars, fl_vars, sm_vars>>
    \/ MainMakeDirs /\ UNCHANGED <<iou_vars, fl_vars, sm_vars>>
    \/ CompareMethodsEnter /\ UNCHANGED <<iou_vars, fl_vars, sm_vars>>
    \/ CompareMethodsCall /\ UNCHANGED <<iou_vars, fl_vars, sm_vars>>
    \/ LoadMetadataLine /\ UNCHANGED <<iou_vars, fl_vars, sm_vars, ev_vars, mn_vars>>
    \/ LoadMetadataReturn /\ UNCHANGED <<iou_vars, fl_vars, sm_vars, ev_vars, mn_vars>>
    \/ EvaluateMethodGlob /\ UNCHANGED <<iou_vars, fl_vars, sm_vars, mn_vars>>
    \/ SkipImage /\ UNCHANGED <<iou_vars, fl_vars, sm_vars, mn_vars>>
    \/ CallOracle /\ UNCHANGED <<iou_vars, fl_vars, sm_vars, mn_vars>>
    \/ ScoreImage /\ UNCHANGED <<iou_vars, fl_vars, sm_vars, mn_vars>>
    \/ EvaluateMethodReturn /\ UNCHANGED <<iou_vars, fl_vars, sm_vars, mn_vars>>
    \/ CompareMethodsCollect /\ UNCHANGED <<iou_vars, fl_vars, sm_vars>>
    \/ MainRaise /\ UNCHANGED <<iou_vars, fl_vars, sm_vars>>
    \/ CompareMethodsReturn /\ UNCHANGED <<iou_vars, fl_vars, sm_vars>>
    \/ MainTables /\ UNCHANGED <<iou_vars, fl_vars, sm_vars>>

SpecMain == InitMain /\ [][NextMain]_vars

-----------------------------------------------------------------------------
(* filter_best_images.py: extract_scene_index and filter_best_per_scene.   *)

(* Path(image_name).stem: for a bare file name, the name without its last  *)
(* suffix.                                                                 *)
PathStem(image_name) == SplitExtStem(image_name)

(* The scene index of an image name: a string, the stem up to its first    *)
(* underscore.                                                             *)
extract_scene_index(image_name) == SplitFirst(PathStem(image_name))

(* x < y for floats *)
FloatLess(x, y) == x.num * y.den < y.num * x.den

(* max(scene_images, key=lambda x: x[metric]): the first record no other   *)
(* record exceeds.                                                         *)
max(scene_images, metric) ==
    scene_images[CHOOSE i \in 1..Len(scene_images) :
        /\ \A j \in 1..Len(scene_images) :
              ~FloatLess(scene_images[i][metric], scene_images[j][metric])
        /\ \A j \in 1..(i - 1) :
              FloatLess(scene_images[j][metric], scene_images[i][metric])]

(* scenes[scene_idx]: the records of one scene, in the order of the input. *)
SceneImages(per_image_results, scene_idx) ==
    LET InScene(result) == extract_scene_index(result.image) = scene_idx
    IN  SelectSeq(per_image_results, InScene)

(* Mutant: the last scene is left out. *)
BestResults_DropLast(per_image_results, metric) ==
    LET Select(keys) ==
            [k \in 1..(Len(keys) - 1) |->
                max(SceneImages(per_image_results, keys[k]), metric)]
    IN  Select(sorted({extract_scene_index(per_image_results[i].image) :
                          i \in 1..Len(per_image_results)}))

(* best_results: for scene_idx in sorted(scenes.keys()), the best image of *)
(* the scene.                                                              *)
BestResults(per_image_results, metric) ==
    LET Select(keys) ==
            [k \in 1..Len(keys) |->
                max(SceneImages(per_image_results, keys[k]), metric)]
    IN  Select(sorted({extract_scene_index(per_image_results[i].image) :
                          i \in 1..Len(per_image_results)}))

(* sum(r[metric] for r in best_results), from 0 *)
RECURSIVE sum(_, _)
sum(best_results, metric) ==
    IF best_results = <<>> THEN Float(0, 1)
    ELSE AddFloat(sum(SubSeq(best_results, 1, Len(best_results) - 1), metric),
                  best_results[Len(best_results)][metric])

(* total / n: ZeroDivisionError when n is 0 *)
Divide(total, n) ==
    IF n = 0 THEN Raise("ZeroDivisionError")
    ELSE Float(total.num, total.den * n)

MetricNames == {"sg_iou", "entity_iou", "relation_iou"}

(* Mutant: the averages of the input file are passed on. *)
filter_best_per_scene_StaleAverages(data, metric) ==
    LET Filtered(best_results, n_scenes) ==
            IF n_scenes = 0
            THEN [exc |-> Divide(sum(best_results, "sg_iou"), n_scenes).exc,
                  selection_method |-> metric,
                  average_metrics |-> <<>>,
                  per_image_results |-> best_results,
                  original_metrics |-> data.average_metrics]
            ELSE [exc |-> "",
                  selection_method |-> metric,
                  average_metrics |->
                      [data.average_metrics EXCEPT !.n_images = n_scenes],
                  per_image_results |-> best_results,
                  original_metrics |-> data.average_metrics]
        Best(best_results) == Filtered(best_results, Len(best_results))
    IN  Best(BestResults(data.per_image_results, metric))

(* filter_best_per_scene(results_file, output_file, metric) on the data    *)
(* read from results_file: the filtered_data it returns, or the exception. *)
filter_best_per_scene(data, metric) ==
    LET Filtered(best_results, n_scenes) ==
            IF n_scenes = 0
            THEN [exc |-> Divide(sum(best_results, "sg_iou"), n_scenes).exc,
                  selection_method |-> metric,
                  average_metrics |-> <<>>,
                  per_image_results |-> best_results,
                  original_metrics |-> data.average_metrics]
            ELSE [exc |-> "",
                  selection_method |-> metric,
                  average_metrics |->
                      [sg_iou |-> Divide(sum(best_results, "sg_iou"), n_scenes),
                       entity_iou |->
                           Divide(sum(best_results, "entity_iou"), n_scenes),
                       relation_iou |->
                           Divide(sum(best_results, "relation_iou"), n_scenes),
                       n_images |-> n_scenes],
                  per_image_results |-> best_results,
                  original_metrics |-> data.average_metrics]
        Best(best_results) == Filtered(best_results, Len(best_results))
    IN  Best(BestResults(data.per_image_results, metric))

(* os.path name of the filtered results file *)
BestOnlyFile == "results_best_only.json"

(* filter_best_per_scene is called on the results file evaluate_method     *)
(* wrote.                                                                  *)
FilterBestPerScene ==
    /\ fl_pc = "idle"
    /\ ev_pc = "returned"
    /\ ev_output_file \in fs
    /\ \E metric \in MetricNames :
       \E filtered_data \in {filter_best_per_scene(ev_output[1], metric)} :
          /\ fl_metric' = metric
          /\ IF filtered_data.exc # ""
             THEN /\ fl_pc' = "raised"
                  /\ fl_exc' = filtered_data.exc
                  /\ UNCHANGED <<fl_out, fs>>
             ELSE /\ fl_pc' = "filtered"
                  /\ fl_out' = <<filtered_data>>
                  /\ fs' = fs \cup {BestOnlyFile}
                  /\ UNCHANGED fl_exc
    /\ UNCHANGED fl_again
    /\ UNCHANGED ld_vars
    /\ UNCHANGED <<ev_pc, ev_dir, ev_output_file, image_files, ev_i, results,
                   total_metrics, evaluated, skipped, ev_response, ev_exc,
                   ev_output, oracle_calls, clock>>

(* filter_best_per_scene is called on the file it wrote, same metric. *)
FilterAgain ==
    /\ fl_pc = "filtered"
    /\ BestOnlyFile \in fs
    /\ \E filtered_data \in {filter_best_per_scene(fl_out[1], fl_metric)} :
          IF filtered_data.exc # ""
          THEN /\ fl_pc' = "raised"
               /\ fl_exc' = filtered_data.exc
               /\ UNCHANGED fl_again
          ELSE /\ fl_pc' = "refiltered"
               /\ fl_again' = <<filtered_data>>
               /\ UNCHANGED fl_exc
    /\ UNCHANGED <<fl_metric, fl_out>>
    /\ UNCHANGED <<ld_vars, ev_vars>>

-----------------------------------------------------------------------------
(* evaluate_method followed by filter_best_per_scene on its results file.  *)

Name0 == <<"0", ".", "p", "n", "g">>

FilterNames == {Name0, Name000, Name000_002, Name1, Name02}

InitFilter ==
    /\ IouIdle
    /\ MainIdle
    /\ FilterIdle
    /\ MappingIdle
    /\ ld_pc = "reading"
    /\ ld_lines \in EvalFiles
    /\ ld_i = 1
    /\ ld_exc = ""
    /\ metadata_list = <<>>
    /\ object_list = {}
    /\ predicate_list = {}
    /\ ev_pc = "load"
    /\ ev_dir \in {S \in SUBSET FilterNames : Cardinality(S) <= MaxImages}
    /\ ev_output_file = "results.json"
    /\ image_files = <<>>
    /\ ev_i = 1
    /\ results = <<>>
    /\ total_metrics = ZeroMetrics
    /\ evaluated = 0
    /\ skipped = 0
    /\ ev_response = [raises |-> FALSE, text |-> <<>>]
    /\ ev_exc = ""
    /\ ev_output = <<>>
    /\ oracle_calls = <<>>
    /\ clock = 0
    /\ fs = {}

NextFilter ==
    \/ LoadMetadataLine /\ UNCHANGED <<iou_vars, ev_vars, mn_vars, fl_vars, sm_vars>>
    \/ LoadMetadataReturn /\ UNCHANGED <<iou_vars, ev_vars, mn_vars, fl_vars, sm_vars>>
    \/ EvaluateMethodGlob /\ UNCHANGED <<iou_vars, mn_vars, fl_vars, sm_vars>>
    \/ SkipImage /\ UNCHANGED <<iou_vars, mn_vars, fl_vars, sm_vars>>
    \/ CallOracle /\ UNCHANGED <<iou_vars, mn_vars, fl_vars, sm_vars>>
    \/ ScoreImage /\ UNCHANGED <<iou_vars, mn_vars, fl_vars, sm_vars>>
    \/ EvaluateMethodReturn /\ UNCHANGED <<iou_vars, mn_vars, fl_vars, sm_vars>>
    \/ FilterBestPerScene /\ UNCHANGED <<iou_vars, mn_vars, sm_vars>>
    \/ FilterAgain /\ UNCHANGED <<iou_vars, mn_vars, sm_vars>>

SpecFilter == InitFilter /\ [][NextFilter]_vars

-----------------------------------------------------------------------------
(* create_scene_mapping.py: create_scene_mapping_file, which asks the user *)
(* for the metadata index of every scene directory, and                    *)
(* auto_create_scene_mapping, which numbers the scene directories.         *)

K_scene_graph_raw ==
    PyStr(<<"s", "c", "e", "n", "e", "_", "g", "r", "a", "p", "h", "_", "r", "a", "w">>)

(* The metadata dict after line number i (from 0) of the file: under key i *)
(* the parsed line (auto) or four of its fields, or the exception raised.  *)
MappingEntry(acc, i, line, auto) ==
    LET Picked(data, file_name, caption, objects, relations) ==
            IF data.exc # "" THEN [acc EXCEPT !.exc = data.exc]
            ELSE IF auto
            THEN [acc EXCEPT !.metadata = DictSet(acc.metadata, i, data.v)]
            ELSE IF file_name.exc # "" THEN [acc EXCEPT !.exc = file_name.exc]
            ELSE IF caption.exc # "" THEN [acc EXCEPT !.exc = caption.exc]
            ELSE IF objects.exc # "" THEN [acc EXCEPT !.exc = objects.exc]
            ELSE IF relations.exc # "" THEN [acc EXCEPT !.exc = relations.exc]
            ELSE [acc EXCEPT !.metadata =
                     DictSet(acc.metadata, i,
                             PyDict(<<K_file_name, file_name.v,
                                      K_caption, caption.v,
                                      K_objects, objects.v,
                                      K_scene_graph_raw, relations.v>>))]
        Parsed(data) ==
            Picked(data, GetKey(data.v, K_file_name), GetKey(data.v, K_caption),
                   GetKey(data.v, K_objects), GetKey(data.v, K_relations))
    IN  IF acc.exc # "" \/ Strip(line) = <<>> THEN acc
        ELSE Parsed(JsonLoads(line))

(* 'for i, line in enumerate(f)' up to the first exception. *)
RECURSIVE MappingMetadata(_, _)
MappingMetadata(lines, auto) ==
    IF lines = <<>> THEN [exc |-> "", metadata |-> <<>>]
    ELSE LET Step(acc) ==
                 MappingEntry(acc, Len(lines) - 1, lines[Len(lines)], auto)
         IN  Step(MappingMetadata(SubSeq(lines, 1, Len(lines) - 1), auto))

(* f.endswith(('.png', '.jpg', '.jpeg')) *)
EndsWith(name, suffix) ==
    /\ Len(name) >= Len(suffix)
    /\ SubSeq(name, Len(name) - Len(suffix) + 1, Len(name)) = suffix

IsImageFile(name) ==
    \/ EndsWith(name, <<".", "p", "n", "g">>)
    \/ EndsWith(name, <<".", "j", "p", "g">>)
    \/ EndsWith(name, <<".", "j", "p", "e", "g">>)

(* The directories os.walk finds under images_dir, each with its files;    *)
(* RootDir is images_dir itself.                                           *)
RootDir == <<".">>

DirS0 == <<"0", "0", "0">>

DirS1 == <<"0", "0", "1">>

DirS2 == <<"0", "0", "2">>

DirTmp == <<"f", "o", "o">>

NameNotes == <<"f", "o", "o", ".", "t", "x", "t">>

TreeOne == {[root |-> RootDir, files |-> {}], [root |-> DirS0, files |-> {Name000}]}

TreeThree ==
    {[root |-> RootDir, files |-> {Name7}],
     [root |-> DirS0, files |-> {Name000, Name000_002}],
     [root |-> DirS1, files |-> {Name1}],
     [root |-> DirS2, files |-> {Name02, NameNotes}],
     [root |-> DirTmp, files |-> {NameNotes}]}

MappingTrees == {TreeOne, TreeThree}

(* scene_dirs: the sorted directories below images_dir that hold an image. *)
SceneDirs(tree) ==
    sorted({d.root : d \in {e \in tree :
                               /\ \E f \in e.files : IsImageFile(f)
                               /\ e.root # RootDir}})

(* What the user may type at the prompt. *)
Choices == {<<"s">>, <<"S">>, <<"0">>, <<"1">>, <<"2">>, <<"x">>}

MappingFile == "scene_mapping.json"

(* Lines 27 to 38 and 120 to 126: the metadata dict is read. *)
MappingLoadMetadata ==
    /\ sm_pc = "load"
    /\ \E got \in {MappingMetadata(sm_lines, sm_auto)} :
          IF got.exc # ""
          THEN /\ sm_pc' = "raised"
               /\ sm_exc' = got.exc
               /\ UNCHANGED sm_metadata
          ELSE /\ sm_pc' = "walk"
               /\ sm_metadata' = got.metadata
               /\ UNCHANGED sm_exc
    /\ UNCHANGED <<sm_auto, sm_lines, sm_tree, scene_dirs, sm_i, mapping>>
    /\ UNCHANGED <<ld_vars, ev_vars>>

(* Lines 40 to 60 and 128 to 141: scene_dirs, mapping = {}. *)
MappingWalk ==
    /\ sm_pc = "walk"
    /\ scene_dirs' = SceneDirs(sm_tree)
    /\ mapping' = <<>>
    /\ sm_i' = 1
    /\ sm_pc' = "map"
    /\ UNCHANGED <<sm_auto, sm_lines, sm_tree, sm_metadata, sm_exc>>
    /\ UNCHANGED <<ld_vars, ev_vars>>

(* One pass of 'for i, scene_dir in enumerate(scene_dirs)' of              *)
(* auto_create_scene_mapping: the directory gets its rank i when           *)
(* i < len(metadata), and metadata[i]['caption'][:50] is printed.          *)
AutoMapDir ==
    /\ sm_pc = "map"
    /\ sm_auto
    /\ sm_i <= Len(scene_dirs)
    /\ LET i == sm_i - 1
           Has(key) == \E k \in 1..Len(sm_metadata) : sm_metadata[k].key = key
           At(key) ==
               sm_metadata[CHOOSE k \in 1..Len(sm_metadata) :
                               sm_metadata[k].key = key].value
       IN  IF i < Len(sm_metadata)
           THEN /\ mapping' = DictSet(mapping, scene_dirs[sm_i], i)
                /\ IF ~Has(i)
                   THEN sm_pc' = "raised" /\ sm_exc' = "KeyError"
                   ELSE IF GetKey(At(i), K_caption).exc # ""
                   THEN /\ sm_pc' = "raised"
                        /\ sm_exc' = GetKey(At(i), K_caption).exc
                   ELSE IF GetKey(At(i), K_caption).v.t
                              \notin {"str", "list", "tuple"}
                   THEN sm_pc' = "raised" /\ sm_exc' = "TypeError"
                   ELSE UNCHANGED <<sm_pc, sm_exc>>
           ELSE UNCHANGED <<mapping, sm_pc, sm_exc>>
    /\ sm_i' = IF sm_pc' = "raised" THEN sm_i ELSE sm_i + 1
    /\ UNCHANGED <<sm_auto, sm_lines, sm_tree, sm_metadata, scene_dirs>>
    /\ UNCHANGED <<ld_vars, ev_vars>>

(* One pass of 'while True' of create_scene_mapping_file for the scene     *)
(* directory at hand: the user's choice is read; 's' skips the directory,  *)
(* an index of the metadata dict maps it, anything else asks again.        *)
AskChoice ==
    /\ sm_pc = "map"
    /\ ~sm_auto
    /\ sm_i <= Len(scene_dirs)
    /\ \E choice \in Choices :
       \E idx \in {int(PyStr(choice))} :
          IF choice \in {<<"s">>, <<"S">>}
          THEN /\ sm_i' = sm_i + 1
               /\ UNCHANGED mapping
          ELSE IF idx.exc = ""
                  /\ \E k \in 1..Len(sm_metadata) : sm_metadata[k].key = idx.n
          THEN /\ mapping' = DictSet(mapping, scene_dirs[sm_i], idx.n)
               /\ sm_i' = sm_i + 1
          ELSE UNCHANGED <<mapping, sm_i>>
    /\ UNCHANGED <<sm_pc, sm_auto, sm_lines, sm_tree, sm_metadata, scene_dirs,
                   sm_exc>>
    /\ UNCHANGED <<ld_vars, ev_vars>>

(* After the loop: the mapping is written and returned. *)
MappingSave ==
    /\ sm_pc = "map"
    /\ sm_i > Len(scene_dirs)
    /\ fs' = fs \cup {MappingFile}
    /\ sm_pc' = "returned"
    /\ UNCHANGED <<sm_auto, sm_lines, sm_tree, sm_metadata, scene_dirs, sm_i,
                   mapping, sm_exc>>
    /\ UNCHANGED ld_vars
    /\ UNCHANGED <<ev_pc, ev_dir, ev_output_file, image_files, ev_i, results,
                   total_metrics, evaluated, skipped, ev_response, ev_exc,
                   ev_output, oracle_calls, clock>>

-----------------------------------------------------------------------------
(* A scene mapping is made for a metadata file of at most MaxLines lines,  *)
(* and load_metadata reads the same file.                                  *)

MappingLines == {LineEmpty, LineCatOnMat, LineStrIdx, LineNoCaption}

InitMapping ==
    /\ IouIdle
    /\ EvalIdle
    /\ MainIdle
    /\ FilterIdle
    /\ ld_pc = "reading"
    /\ ld_lines \in SeqsUpTo(MappingLines, MaxLines)
    /\ ld_i = 1
    /\ ld_exc = ""
    /\ metadata_list = <<>>
    /\ object_list = {}
    /\ predicate_list = {}
    /\ sm_pc = "load"
    /\ sm_auto \in BOOLEAN
    /\ sm_lines = ld_lines
    /\ sm_tree \in MappingTrees
    /\ sm_metadata = <<>>
    /\ scene_dirs = <<>>
    /\ sm_i = 1
    /\ mapping = <<>>
    /\ sm_exc = ""

NextMapping ==
    \/ LoadMetadataLine /\ UNCHANGED <<iou_vars, ev_vars, mn_vars, fl_vars, sm_vars>>
    \/ LoadMetadataReturn /\ UNCHANGED <<iou_vars, ev_vars, mn_vars, fl_vars, sm_vars>>
    \/ MappingLoadMetadata /\ UNCHANGED <<iou_vars, mn_vars, fl_vars>>
    \/ MappingWalk /\ UNCHANGED <<iou_vars, mn_vars, fl_vars>>
    \/ AutoMapDir /\ UNCHANGED <<iou_vars, mn_vars, fl_vars>>
    \/ AskChoice /\ UNCHANGED <<iou_vars, mn_vars, fl_vars>>
    \/ MappingSave /\ UNCHANGED <<iou_vars, mn_vars, fl_vars>>

SpecMapping == InitMapping /\ [][NextMapping]_vars

-----------------------------------------------------------------------------
(* Properties of compute_iou. *)

(* The value the set formula gives, computed on the items as written. *)
IouBySets(a, b) ==
    IF a = <<>> /\ b = <<>> THEN [exc |-> "", num |-> 1, den |-> 1]
    ELSE IF a = <<>> \/ b = <<>> THEN [exc |-> "", num |-> 0, den |-> 1]
    ELSE LET i == Cardinality(Range(a) \cap Range(b))
             u == Cardinality(Range(a) \cup Range(b))
             q == CHOOSE f \in (0..u) \X (1..u) :
                      /\ f[1] * u = i * f[2]
                      /\ \A g \in (0..u) \X (1..u) :
                            g[1] * u = i * g[2] => f[2] <= g[2]
         IN  [exc |-> "", num |-> q[1], den |-> q[2]]

(* C1: compute_iou(a, b) is 1.0 when both lists are empty, 0.0 when        *)
(* exactly one is, and otherwise |set(a) & set(b)| / |set(a) | set(b)|,    *)
(* the items (strings or triples) compared by structural equality.         *)
C1_IouIsSetOverlap ==
    iou_pc = "done" => iou_out = IouBySets(iou_list1, iou_list2)

(* C1 witness: two lists of triples sharing one of three distinct triples. *)
C1_Witness ==
    /\ iou_pc = "done"
    /\ iou_list1 # <<>> /\ iou_list1[1] \in IouTriples
    /\ Cardinality(Range(iou_list1) \cap Range(iou_list2)) = 1
    /\ Cardinality(Range(iou_list1) \cup Range(iou_list2)) = 3
    /\ iou_out = [exc |-> "", num |-> 1, den |-> 3]

(* C3: compute_iou is symmetric: compute_iou(a, b) = compute_iou(b, a).    *)
C3_IouSymmetric ==
    iou_pc = "done" =>
        iou_out = compute_iou(PyList(iou_list2), PyList(iou_list1))

(* C3 witness: lists with different numbers of distinct items that overlap. *)
C3_Witness ==
    /\ iou_pc = "done"
    /\ Cardinality(Range(iou_list1)) = 1
    /\ Cardinality(Range(iou_list2)) = 2
    /\ Range(iou_list1) \subseteq Range(iou_list2)
    /\ iou_out = [exc |-> "", num |-> 1, den |-> 2]

(* C4: compute_iou(a, b) is 1.0 whenever a and b are non-empty and hold    *)
(* the same set of distinct items, whatever the order and the duplicates.  *)
C4_SameItemsGiveOne ==
    (/\ iou_pc = "done"
     /\ iou_list1 # <<>>
     /\ iou_list2 # <<>>
     /\ Range(iou_list1) = Range(iou_list2))
        => iou_out = [exc |-> "", num |-> 1, den |-> 1]

(* C4 witness: compute_iou([t, t], [t]) for a triple t has returned 1.0.   *)
C4_Witness ==
    /\ iou_pc = "done"
    /\ \E t \in IouTriples : iou_list1 = <<t, t>> /\ iou_list2 = <<t>>
    /\ iou_out = [exc |-> "", num |-> 1, den |-> 1]

-----------------------------------------------------------------------------
(* Properties of load_metadata. *)

(* A line that is not white space only. *)
IsRecordLine(line) == line.doc.t # "nodoc"

(* The value a record holds under a key. *)
FieldOf(doc, key) ==
    doc.l[2 * (CHOOSE i \in 1..(Len(doc.l) \div 2) : doc.l[2 * i - 1] = key)]

(* The number an index stands for: an integer, or a string of digits. *)
RECURSIVE NumeralValue(_, _)
NumeralValue(chars, acc) ==
    IF chars = <<>> THEN acc
    ELSE NumeralValue(Tail(chars), 10 * acc + DigitValue(Head(chars)))

IndexNumber(x) == IF x.t = "int" THEN x.n ELSE NumeralValue(x.s, 0)

(* objects[i] as Python indexes a list: from the end when i is negative. *)
ObjectAt(objects, i) ==
    IF i >= 0 THEN objects.l[i + 1] ELSE objects.l[Len(objects.l) + i + 1]

(* C5: load_metadata returns one record per non-empty line, in line order, *)
(* so the record at position k is the k-th non-empty line; its scene_graph *)
(* is (objects[subject_index], predicate, objects[object_index]) for its   *)
(* relations in order, the indices being integers or numeric strings.      *)
C5_OneRecordPerLineInOrder ==
    ld_pc = "returned" =>
        LET recs == SelectSeq(ld_lines, IsRecordLine)
        IN  /\ Len(metadata_list) = Len(recs)
            /\ \A k \in 1..Len(recs) :
                  LET doc == recs[k].doc
                      objects == FieldOf(doc, K_objects)
                      rels == FieldOf(doc, K_relations).l
                      entry == metadata_list[k]
                  IN  /\ entry.file_name = FieldOf(doc, K_file_name)
                      /\ entry.caption = FieldOf(doc, K_caption)
                      /\ entry.scene_graph.t = "list"
                      /\ Len(entry.scene_graph.l) = Len(rels)
                      /\ \A j \in 1..Len(rels) :
                            entry.scene_graph.l[j] =
                                PyList(<<ObjectAt(objects, IndexNumber(rels[j].l[1])),
                                         rels[j].l[2],
                                         ObjectAt(objects, IndexNumber(rels[j].l[3]))>>)

(* C5 witness: a file with a blank line between two records, one of them   *)
(* with string indices, has loaded: scene 0 is (mat, under, cat), scene 1  *)
(* is (cat, on, mat).                                                      *)
C5_Witness ==
    /\ ld_pc = "returned"
    /\ ld_lines = <<LineStrIdx, LineEmpty, LineCatOnMat>>
    /\ Len(metadata_list) = 2
    /\ metadata_list[1].scene_graph = PyList(<<PyList(<<mat, under, cat>>)>>)
    /\ metadata_list[2].scene_graph = PyList(<<PyList(<<cat, on, mat>>)>>)

(* C6: load_metadata returns no record list when some relation of some     *)
(* record has a subject or object index outside 0 <= index < len(objects), *)
(* negative indices included.                                              *)
C6_BadIndexFailsLoad ==
    ld_pc = "returned" =>
        \A k \in 1..Len(ld_lines) :
            IsRecordLine(ld_lines[k]) =>
                LET doc == ld_lines[k].doc
                    n == Len(FieldOf(doc, K_objects).l)
                    rels == FieldOf(doc, K_relations).l
                IN  \A j \in 1..Len(rels) :
                        /\ 0 <= IndexNumber(rels[j].l[1])
                        /\ IndexNumber(rels[j].l[1]) < n
                        /\ 0 <= IndexNumber(rels[j].l[3])
                        /\ IndexNumber(rels[j].l[3]) < n

-----------------------------------------------------------------------------
(* Properties of main. *)

MetadataKeys == {K_file_name, K_caption, K_objects, K_relations}

(* A relation index that is a number (or a string of digits) within        *)
(* 0 <= index < n.                                                         *)
IndexWithin(x, n) ==
    \/ x.t = "int" /\ 0 <= x.n /\ x.n < n
    \/ /\ x.t = "str"
       /\ x.s # <<>>
       /\ \A i \in 1..Len(x.s) : x.s[i] \in DecimalDigits
       /\ NumeralValue(x.s, 0) < n

(* The line cannot be parsed, lacks a field, or has a relation index out   *)
(* of range.                                                               *)
MalformedLine(line) ==
    /\ IsRecordLine(line)
    /\ \/ line.doc.t # "dict"
       \/ \E key \in MetadataKeys : ~DictHas(line.doc, key)
       \/ \E j \in 1..Len(FieldOf(line.doc, K_relations).l) :
             LET rel == FieldOf(line.doc, K_relations).l[j]
                 n == Len(FieldOf(line.doc, K_objects).l)
             IN  ~IndexWithin(rel.l[1], n) \/ ~IndexWithin(rel.l[3], n)

MalformedMetadata ==
    /\ main_meta # <<>>
    /\ \E k \in 1..Len(main_meta[1]) : MalformedLine(main_meta[1][k])

(* C7: when the API credential is missing or the metadata is malformed     *)
(* (unparseable line, missing field, out-of-range relation index), a run   *)
(* of main never completes, makes no oracle call and writes no output: no  *)
(* output directory, no results file, no comparison file.                  *)
C7_FatalErrorBeforeAnyOutput ==
    (main_pc # "idle" /\ (~main_key \/ MalformedMetadata)) =>
        /\ main_pc # "done"
        /\ oracle_calls = <<>>
        /\ fs = {}

-----------------------------------------------------------------------------
(* Properties of evaluate_method. *)

(* The file name without its extension. *)
NameStem(name) ==
    SubSeq(name, 1, (CHOOSE i \in 1..Len(name) :
                        name[i] = "." /\ \A j \in (i + 1)..Len(name) : name[j] # ".") - 1)

(* The part of a stem before its first underscore. *)
StemHead(stem) ==
    SubSeq(stem, 1, CHOOSE k \in 0..Len(stem) :
                        /\ \A i \in 1..k : stem[i] # "_"
                        /\ k = Len(stem) \/ stem[k + 1] = "_")

(* The file name names a record: the head of its stem is made of decimal   *)
(* digits only and their value is below the number of loaded records.      *)
NamesRecord(name) ==
    LET head == StemHead(NameStem(name))
    IN  /\ head # <<>>
        /\ \A i \in 1..Len(head) : head[i] \in DecimalDigits
        /\ NumeralValue(head, 0) < Len(metadata_list)

NamedRecord(name) == NumeralValue(StemHead(NameStem(name)), 0)

(* The images whose pass of the loop is over. *)
Processed == IF ev_pc \in {"idle", "load"} THEN 0 ELSE ev_i - 1

OracleCalled(name) == \E c \in 1..Len(oracle_calls) : oracle_calls[c].image = name

Recorded(name) == \E r \in 1..Len(results) : results[r].image = name

InUnit(x) == x.exc = "" /\ x.den > 0 /\ 0 <= x.num /\ x.num <= x.den

(* C2: every score record has sg_iou, entity_iou and relation_iou in       *)
(* [0, 1], whatever the ground truth and whatever the oracle returned.     *)
C2_ScoresInUnitInterval ==
    \A r \in 1..Len(results) :
        /\ InUnit(results[r].sg_iou)
        /\ InUnit(results[r].entity_iou)
        /\ InUnit(results[r].relation_iou)

(* C2 witness: one record scored on a prediction with words outside the    *)
(* vocabulary, another on empty triple and entity lists.                   *)
C2_Witness ==
    /\ \E r \in 1..Len(results) :
          /\ sofa \in Range(results[r].predicted_entities.l)
          /\ sofa.s \notin {o.s : o \in object_list}
          /\ results[r].entity_iou = [exc |-> "", num |-> 1, den |-> 3]
    /\ \E r \in 1..Len(results) :
          /\ results[r].predicted_sg = PyList(<<>>)
          /\ results[r].predicted_entities = PyList(<<>>)
          /\ results[r].ground_truth_sg # PyList(<<>>)
          /\ results[r].sg_iou = [exc |-> "", num |-> 0, den |-> 1]

(* C8: an image file name resolves to scene id n exactly when the part of  *)
(* its stem before the first underscore is decimal digits only, of value   *)
(* n < number of loaded records; a resolved image is sent to the oracle    *)
(* and recorded under n, any other image is neither.                       *)
C8_SceneIdFromFileName ==
    /\ \A j \in 1..Len(image_files) :
          j <= Processed =>
              (NamesRecord(image_files[j]) <=> OracleCalled(image_files[j]))
    /\ ev_pc \in {"scoring", "raised"} => NamesRecord(image_files[ev_i])
    /\ \A c \in 1..Len(oracle_calls) : NamesRecord(oracle_calls[c].image)
    /\ \A r \in 1..Len(results) :
          /\ NamesRecord(results[r].image)
          /\ results[r].scene_index = NamedRecord(results[r].image)

(* C8 witness: "000_002.png" was recorded under scene 0 and "foo.png" was  *)
(* passed over.                                                            *)
C8_Witness ==
    /\ ev_pc = "returned"
    /\ image_files = <<Name000_002, NameFoo>>
    /\ Len(results) = 1
    /\ results[1].image = Name000_002
    /\ results[1].scene_index = 0
    /\ skipped = 1

(* The sum of a metric over the records. *)
RECURSIVE SumOver(_, _)
SumOver(records, metric) ==
    IF records = <<>> THEN [num |-> 0, den |-> 1]
    ELSE LET rest == SumOver(Tail(records), metric)
             x == Head(records)[metric]
         IN  [num |-> rest.num * x.den + x.num * rest.den, den |-> rest.den * x.den]

SameNumber(x, y) == x.num * y.den = y.num * x.den

(* C9: every image is either scored or skipped, never both: evaluated =    *)
(* len(results), evaluated + skipped = images processed; an image that     *)
(* names no record adds no entry to results, nothing to the totals and no  *)
(* oracle call, and the loop goes on after it.                             *)
C9_ScoredOrSkipped ==
    /\ evaluated = Len(results)
    /\ evaluated + skipped = Processed
    /\ \A j \in 1..Len(image_files) :
          /\ j <= Processed /\ ~NamesRecord(image_files[j]) =>
                ~Recorded(image_files[j]) /\ ~OracleCalled(image_files[j])
          /\ j <= Processed /\ NamesRecord(image_files[j]) =>
                Cardinality({r \in 1..Len(results) :
                                results[r].image = image_files[j]}) = 1
          /\ j > Processed => ~Recorded(image_files[j])
    /\ skipped = Cardinality({j \in 1..Processed : ~NamesRecord(image_files[j])})
    /\ SameNumber(total_metrics.sg_iou, SumOver(results, "sg_iou"))
    /\ SameNumber(total_metrics.entity_iou, SumOver(results, "entity_iou"))
    /\ SameNumber(total_metrics.relation_iou, SumOver(results, "relation_iou"))
    /\ ev_pc = "raised" => NamesRecord(image_files[ev_i])
    /\ ev_pc = "returned" => Processed = Len(image_files)

(* C9 witness: "02.png" names no record of a two-record file and was       *)
(* skipped, then "1.jpg" was scored.                                       *)
C9_Witness ==
    /\ ev_pc = "returned"
    /\ Len(metadata_list) = 2
    /\ image_files = <<Name02, Name1>>
    /\ skipped = 1
    /\ evaluated = 1
    /\ Len(oracle_calls) = 1
    /\ results[1].image = Name1

(* The response is what the prompt asks for: one JSON object whose         *)
(* scene_graph is a list of triples of strings and whose entities is a     *)
(* list of strings.                                                        *)
IsStr(v) == v.t = "str"

WellFormedAnswer(response) ==
    /\ ~response.raises
    /\ \E k \in 1..Len(response.text) :
          /\ response.text[k].tok = "doc"
          /\ \A j \in 1..Len(response.text) :
                j # k => response.text[j].tok \in {"fence", "json", "\n"}
          /\ LET v == response.text[k].v
             IN  /\ v.t = "dict"
                 /\ Len(v.l) = 4
                 /\ v.l[1] = K_scene_graph /\ v.l[3] = K_entities
                 /\ v.l[2].t = "list"
                 /\ \A i \in 1..Len(v.l[2].l) :
                       /\ v.l[2].l[i].t = "list"
                       /\ Len(v.l[2].l[i].l) = 3
                       /\ \A m \in 1..3 : IsStr(v.l[2].l[i].l[m])
                 /\ v.l[4].t = "list"
                 /\ \A i \in 1..Len(v.l[4].l) : IsStr(v.l[4].l[i])

(* C10: an oracle failure on one image (the call raises, the text is not   *)
(* JSON, fields are missing, or the content is no list of triples / list   *)
(* of strings) never aborts evaluate_method: the image is scored as the    *)
(* empty prediction and the remaining images are processed.                *)
C10_OracleFailureNeverAborts ==
    /\ ev_pc # "raised"
    /\ (/\ ev_pc \in {"loop", "returned"}
        /\ results # <<>>
        /\ oracle_calls # <<>>
        /\ ~WellFormedAnswer(ev_response))
           => LET last == results[Len(results)]
              IN  /\ last.image = oracle_calls[Len(oracle_calls)].image
                  /\ last.sg_iou = compute_iou(last.ground_truth_sg, PyList(<<>>))
                  /\ last.entity_iou.num =
                         (IF last.ground_truth_sg = PyList(<<>>) THEN 1 ELSE 0)
                  /\ last.relation_iou.num =
                         (IF last.ground_truth_sg = PyList(<<>>) THEN 1 ELSE 0)

-----------------------------------------------------------------------------
(* Properties of filter_best_per_scene. *)

(* The list read from the results file and the list returned. *)
FilterInput == ev_output[1].per_image_results

FilterOutput == fl_out[1].per_image_results

Filtered == fl_pc \in {"filtered", "refiltered"}

SceneIds(records) == {records[i].scene_index : i \in 1..Len(records)}

(* C12: filter_best_per_scene returns exactly one record per distinct      *)
(* scene id of its input: as many records as there are distinct            *)
(* scene_index values, no two of them with the same scene id.              *)
C12_OneRecordPerSceneId ==
    Filtered =>
        /\ Len(FilterOutput) = Cardinality(SceneIds(FilterInput))
        /\ \A i, j \in 1..Len(FilterOutput) :
              i # j => FilterOutput[i].scene_index # FilterOutput[j].scene_index

(* The position of a record in the input list. *)
InputPosition(record) ==
    CHOOSE i \in 1..Len(FilterInput) : FilterInput[i] = record

(* C13: every record kept has a value of the chosen metric >= that of      *)
(* every input record of its scene, and of the records of the scene tied   *)
(* at that value it is the first of the input list.                        *)
C13_BestOfSceneFirstOnTie ==
    Filtered =>
        \A o \in 1..Len(FilterOutput) :
            \A i \in 1..Len(FilterInput) :
                FilterInput[i].scene_index = FilterOutput[o].scene_index =>
                    /\ FilterOutput[o][fl_metric].num * FilterInput[i][fl_metric].den
                          >= FilterInput[i][fl_metric].num
                                 * FilterOutput[o][fl_metric].den
                    /\ FilterInput[i][fl_metric] = FilterOutput[o][fl_metric] =>
                          InputPosition(FilterOutput[o]) <= i

(* C14: filter_best_per_scene given its own output, with the same metric,  *)
(* returns the same records and the same average metrics.                  *)
C14_FilterIdempotent ==
    /\ fl_pc = "refiltered" =>
          /\ fl_again[1].per_image_results = fl_out[1].per_image_results
          /\ fl_again[1].average_metrics = fl_out[1].average_metrics
    /\ fl_pc = "raised" => fl_out = <<>>

(* C14 witness: the first pass reduced three records of two scenes to two, *)
(* the second pass is over.                                                *)
C14_Witness ==
    /\ fl_pc = "refiltered"
    /\ Len(FilterInput) = 3
    /\ Len(FilterOutput) = 2
    /\ Len(fl_again[1].per_image_results) = 2

(* avg is the arithmetic mean of the metric over the records. *)
IsMeanOf(avg, records, metric) ==
    /\ avg.exc = ""
    /\ avg.den > 0
    /\ avg.num * SumOver(records, metric).den * Len(records)
           = SumOver(records, metric).num * avg.den

IsAggregateOf(average_metrics, records) ==
    /\ \A metric \in MetricNames :
          IsMeanOf(average_metrics[metric], records, metric)
    /\ average_metrics.n_images = Len(records)

(* C15: the average metrics returned by evaluate_method and by             *)
(* filter_best_per_scene are the arithmetic means over the records of the  *)
(* returned per_image_results list, n_images is its length, and filtering  *)
(* passes the all-images averages on unchanged as original_metrics.        *)
C15_AveragesAreMeansOfReturned ==
    /\ ev_pc = "returned" =>
          IsAggregateOf(ev_output[1].average_metrics, FilterInput)
    /\ Filtered =>
          /\ IsAggregateOf(fl_out[1].average_metrics, FilterOutput)
          /\ fl_out[1].original_metrics = ev_output[1].average_metrics
    /\ fl_pc = "refiltered" =>
          /\ IsAggregateOf(fl_again[1].average_metrics,
                           fl_again[1].per_image_results)
          /\ fl_again[1].original_metrics = fl_out[1].average_metrics

(* C15 witness: two images of scene "000" scored 0 and 1 on sg_iou: the    *)
(* all-images mean is 1/2, the mean after filtering by sg_iou is 1.        *)
C15_Witness ==
    /\ fl_pc = "filtered"
    /\ fl_metric = "sg_iou"
    /\ image_files = <<Name000, Name000_002>>
    /\ ev_output[1].average_metrics.sg_iou = [exc |-> "", num |-> 1, den |-> 2]
    /\ fl_out[1].average_metrics.sg_iou = [exc |-> "", num |-> 1, den |-> 1]
    /\ fl_out[1].average_metrics.n_images = 1
    /\ fl_out[1].original_metrics.n_images = 2

IsZeroAggregate(average_metrics) ==
    /\ \A metric \in MetricNames : average_metrics[metric].num = 0
    /\ average_metrics.n_images = 0

(* C16: an aggregate over zero score records is three zero averages with   *)
(* n_images = 0, and no division by zero is raised: in evaluate_method     *)
(* when no image resolves, in filter_best_per_scene on an empty list.      *)
C16_ZeroRecordsGiveZeroAggregate ==
    /\ (ev_pc = "returned" /\ results = <<>>) =>
          IsZeroAggregate(ev_output[1].average_metrics)
    /\ fl_exc # "ZeroDivisionError"
    /\ (Filtered /\ FilterInput = <<>>) =>
          IsZeroAggregate(fl_out[1].average_metrics)

(* The scene ids of the records never decrease along the list. *)
OrderedBySceneId(records) ==
    \A i, j \in 1..Len(records) :
        i < j => records[i].scene_index <= records[j].scene_index

(* C19: the per-image list of evaluate_method and the reduced list of      *)
(* filter_best_per_scene are ordered by non-decreasing integer scene id,   *)
(* whatever the image names.                                               *)
C19_OrderedBySceneId ==
    /\ OrderedBySceneId(results)
    /\ Filtered => OrderedBySceneId(FilterOutput)

-----------------------------------------------------------------------------
(* Properties of the oracle calls. *)

FileObjects ==
    UNION {Range(FieldOf(main_meta[1][k].doc, K_objects).l) :
              k \in {j \in 1..Len(main_meta[1]) : IsRecordLine(main_meta[1][j])}}

FilePredicates ==
    UNION {{rel.l[2] : rel \in Range(FieldOf(main_meta[1][k].doc, K_relations).l)} :
              k \in {j \in 1..Len(main_meta[1]) : IsRecordLine(main_meta[1][j])}}

VocabularyAtCalls ==
    /\ ev_pc = "scoring" => ld_pc = "returned"
    /\ \A c \in 1..Len(oracle_calls) :
          /\ Range(oracle_calls[c].object_list) = {o.s : o \in FileObjects}
          /\ Range(oracle_calls[c].predicate_list) = {q.s : q \in FilePredicates}
          /\ oracle_calls[c].object_list = oracle_calls[1].object_list
          /\ oracle_calls[c].predicate_list = oracle_calls[1].predicate_list

VocabularyGrows ==
    /\ object_list \subseteq object_list'
    /\ predicate_list \subseteq predicate_list'

(* C18: the vocabulary only grows, and at every oracle call the vocabulary *)
(* handed to the oracle is the same: the objects of all records of the     *)
(* metadata file and the predicate labels of all their relations, loading  *)
(* being over before the call, also when a second method reloads the file. *)
C18_VocabularyFrozenAtCalls == [](VocabularyAtCalls) /\ [][VocabularyGrows]_vars

(* C18 witness: the second method's image is at the oracle, with the       *)
(* vocabulary the first method's image was sent with.                      *)
C18_Witness ==
    /\ main_pc = "evaluating"
    /\ cm_i = 2
    /\ ev_pc = "scoring"
    /\ Len(oracle_calls) = 2
    /\ oracle_calls[1].image = Name000
    /\ oracle_calls[2].image = Name1
    /\ oracle_calls[2].object_list = <<cat.s, mat.s>>
    /\ oracle_calls[2].predicate_list = <<on.s, under.s>>

-----------------------------------------------------------------------------
(* Properties of the scene mapping. *)

(* C20: the metadata index the scene mapping gives a record equals the     *)
(* scene id load_metadata gives it, its 0-based position among the loaded  *)
(* records, blank lines or not; and auto_create_scene_mapping ends without *)
(* an error whenever the metadata loads.                                   *)
C20_MappingIndexIsSceneId ==
    ld_pc = "returned" =>
        /\ sm_pc \in {"walk", "map", "returned"} =>
              /\ Len(sm_metadata) = Len(metadata_list)
              /\ \A j \in 1..Len(sm_metadata) :
                    /\ sm_metadata[j].key = j - 1
                    /\ GetKey(sm_metadata[j].value, K_file_name).v
                           = metadata_list[j].file_name
              /\ \A k \in 1..Len(mapping) : mapping[k].value < Len(metadata_list)
        /\ sm_auto => sm_pc # "raised"

-----------------------------------------------------------------------------
(* Properties of evaluate_image. *)

(* The triples of a graph field; none when the field is no list. *)
TriplesOf(graph) == IF graph.t = "list" THEN graph.l ELSE <<>>

(* The subjects followed by the objects of the triples. *)
SubjectsAndObjects(triples) ==
    [k \in 1..(2 * Len(triples)) |->
        IF k <= Len(triples) THEN triples[k].l[1]
        ELSE triples[k - Len(triples)].l[3]]

(* The predicate component of every triple. *)
PredicatesOf(triples) == [k \in 1..Len(triples) |-> triples[k].l[2]]

(* The JSON value an oracle response carries. *)
AnswerDoc(response) ==
    response.text[CHOOSE k \in 1..Len(response.text) :
                      response.text[k].tok = "doc"].v

(* C11: in every score record sg_iou is the IoU of the ground-truth        *)
(* triples and the predicted triples, entity_iou the IoU of the subjects   *)
(* and objects of the ground-truth triples and the oracle's entities field *)
(* as returned, relation_iou the IoU of the predicates of the ground-truth *)
(* triples and the predicates of the predicted triples.                    *)
C11_MetricDefinitions ==
    /\ \A r \in 1..Len(results) :
          LET gt == TriplesOf(results[r].ground_truth_sg)
              pred == TriplesOf(results[r].predicted_sg)
          IN  /\ results[r].sg_iou = IouBySets(gt, pred)
              /\ results[r].entity_iou =
                     IouBySets(SubjectsAndObjects(gt),
                               TriplesOf(results[r].predicted_entities))
              /\ results[r].relation_iou =
                     IouBySets(PredicatesOf(gt), PredicatesOf(pred))
    /\ (/\ ev_pc \in {"loop", "returned"}
        /\ results # <<>>
        /\ oracle_calls # <<>>
        /\ results[Len(results)].image = oracle_calls[Len(oracle_calls)].image
        /\ WellFormedAnswer(ev_response))
           => /\ results[Len(results)].predicted_sg =
                     AnswerDoc(ev_response).l[2]
              /\ results[Len(results)].predicted_entities =
                     AnswerDoc(ev_response).l[4]

(* C11 witness: ground truth (cat, on, mat); the oracle returned the       *)
(* triples (cat, on, mat), (sofa, near, cat) and the entities cat, sofa:   *)
(* sg_iou 1/2, entity_iou 1/3 (2/3 had the entities been taken from the    *)
(* triples), relation_iou 1/2.                                             *)
C11_Witness ==
    \E r \in 1..Len(results) :
        /\ results[r].ground_truth_sg = PyList(<<PyList(<<cat, on, mat>>)>>)
        /\ results[r].predicted_entities = PyList(<<cat, sofa, cat>>)
        /\ results[r].sg_iou = [exc |-> "", num |-> 1, den |-> 2]
        /\ results[r].entity_iou = [exc |-> "", num |-> 1, den |-> 3]
        /\ results[r].relation_iou = [exc |-> "", num |-> 1, den |-> 2]

=============================================================================
